---- MODULE Spec2Model ----
(***************************************************************************)
(* lang-land: the flashcard markdown parser (utils/restructure_flashcards), *)
(* its inverse the markdown composer (convertToMarkdown) and the greedy     *)
(* longest-match segmenter (src/lib/turnChineseWordsIntoLinks).             *)
(*                                                                         *)
(* A JavaScript string is a sequence of one-character strings.  A character *)
(* outside ASCII is written by its code point: "u2013" is the en dash,      *)
(* "u706b" the ideograph U+706B.  Positions are 1-based; 0 is JavaScript's  *)
(* -1 ("not found") and NoMatch is a regular expression's null.             *)
(***************************************************************************)
EXTENDS Naturals, Integers, Sequences, FiniteSets, TLC

VARIABLES
  pc,        \* the function the caller invokes next, "done" when none is left
  fn,        \* the function that returned last, "none" before the first call
  text,      \* the flashcard markdown handed to the parser
  result,    \* what the call returned
  word,      \* the headword handed to convertToMarkdown
  data,      \* the structured entry handed to convertToMarkdown
  content,   \* the text handed to turnChineseWordsIntoLinks
  graph,     \* the ids of the graph's nodes (graph.getNode(id) is truthy iff id is one)
  html,      \* what turnChineseWordsIntoLinks returned
  given,     \* the pieces the caller built its argument from
  references,      \* the character reference index, an object: its entries in insertion order
  flashcardsData,  \* the raw dictionary handed to processFlashcardsData, its entries in order
  calls,     \* the calls of processChinesePhrase under way, the innermost last
  lastLabel,        \* Sidebar: the label of the last open() that went through
  isOpen,           \* Sidebar: the sidebar is open
  flashcards,       \* Sidebar: the cache, label -> markdown ('' after a failed fetch)
  pendingRequests,  \* Sidebar: the labels whose fetch is under way
  contentElement,   \* Sidebar: what the content element shows
  awaiting,         \* Sidebar: the labels of the calls of showContentForLabel suspended at
                    \* their await, in the order they will resume
  sidebarGraph,     \* sidebar.js: its module variable graph is set
  rerenderWhenGraphReady,  \* sidebar.js: the render to repeat when the graph arrives
  opens,            \* the number of calls of open() so far
  regionCache,      \* RegionsService: the ids whose data is in the cache
  loadingRegions,   \* RegionsService: the ids whose fetch is under way
  loads,            \* the calls of loadRegions suspended at their await
  resolved,         \* the calls of loadRegions that resolved, with their results
  served,           \* the region ids the server has a file for
  graphCache,       \* graph.js: the cache holds the graph
  graphFetches,     \* the number of fetches of the graph file started so far
  graphCalls,       \* the calls of getGraph suspended at an await of their fetch
  graphHits,        \* the number of calls of getGraph that returned the cached graph
  localStorage,     \* wordStats: the stored history, word -> timestamps
  clock,            \* Date.now(), in milliseconds
  recent            \* the last call of getRecentClicks: its argument, its time, its value

\* the state of the callers of the parser, the composer and the segmenter
libState == <<pc, fn, text, result, word, data, content, graph, html, given, references, flashcardsData>>

sidebarState == <<lastLabel, isOpen, flashcards, pendingRequests, contentElement, awaiting,
                  sidebarGraph, rerenderWhenGraphReady, opens>>

regionsState == <<regionCache, loadingRegions, loads, resolved, served>>

graphState == <<graphCache, graphFetches, graphCalls, graphHits>>

statsState == <<localStorage, clock, recent>>

\* the state of the modules of the page
pageState == <<sidebarState, regionsState, graphState, statsState>>

\* the state of the recursion and of the modules of the page
appState == <<calls, pageState>>

vars == <<libState, appState>>

-----------------------------------------------------------------------------
(* String primitives of JavaScript used by the sources.                     *)

NoMatch == [matched |-> FALSE]

\* \s of a regular expression, String.prototype.trim: the white space of the alphabet
WhiteSpace == {" ", "\t", "\n", "\r"}

\* the line terminators "." does not match and "$" (flag m) stops before
LineTerminator == {"\n", "\r"}

Min(S) == CHOOSE x \in S : \A y \in S : x <= y
Max(S) == CHOOSE x \in S : \A y \in S : y <= x

\* s.startsWith(t, i-1): t occurs in s at position i
HasAt(s, i, t) ==
  /\ i >= 1
  /\ i + Len(t) - 1 <= Len(s)
  /\ \A k \in 1..Len(t) : s[i + k - 1] = t[k]

\* s.indexOf(t, from-1) + 1
IndexOfFrom(s, t, from) ==
  LET hits == {i \in from..(Len(s) - Len(t) + 1) : HasAt(s, i, t)}
  IN  IF hits = {} THEN 0 ELSE Min(hits)

\* s.includes(t)
Includes(s, t) == IndexOfFrom(s, t, 1) # 0

\* s.substring(i-1)
From(s, i) == SubSeq(s, i, Len(s))

\* s.trimEnd()
RECURSIVE TrimEnd(_)
TrimEnd(s) ==
  IF s # <<>> /\ s[Len(s)] \in WhiteSpace THEN TrimEnd(SubSeq(s, 1, Len(s) - 1)) ELSE s

\* s.trimStart()
RECURSIVE TrimStart(_)
TrimStart(s) ==
  IF s # <<>> /\ Head(s) \in WhiteSpace THEN TrimStart(Tail(s)) ELSE s

\* s.trim()
Trim(s) == TrimStart(TrimEnd(s))

\* s.split('\n'): always at least one piece
RECURSIVE Split(_)
Split(s) ==
  LET nl == IndexOfFrom(s, <<"\n">>, 1)
  IN  IF nl = 0 THEN <<s>> ELSE <<SubSeq(s, 1, nl - 1)>> \o Split(From(s, nl + 1))

\* pieces.join(sep)
RECURSIVE Join(_, _)
Join(pieces, sep) ==
  IF pieces = <<>> THEN <<>>
  ELSE IF Len(pieces) = 1 THEN pieces[1]
  ELSE pieces[1] \o sep \o Join(Tail(pieces), sep)

\* array.map(line => line.trim())
Trimmed(a) == [i \in 1..Len(a) |-> Trim(a[i])]

\* array.map(line => line.trimEnd())
TrimmedEnd(a) == [i \in 1..Len(a) |-> TrimEnd(a[i])]

-----------------------------------------------------------------------------
(* extractTitleInfo                                                         *)

\* a dashPattern that leaves the en dash out
DashPatternHyphenOnly == {"-"}

\* dashPattern '[-–]': hyphen-minus or en dash
DashPattern == {"-", "u2013"}

TitleOpen == <<"#", " ", "*", "*">>       \* "# **" opens each of the five patterns

\* The five regular expressions, in the order they are tried.  Each is
\*   # \*\*(g1)<mid>(g2)<close>[-–] (g3)       with g2 = [^\)]+
\* not:   the character g1 excludes ([^\*]+ or [^\(]+)
\* bold:  FALSE for the tail (.+)$ , TRUE for the tail ([^\*]+)\*\*$
TitlePatterns == <<
  [not |-> "*", mid |-> <<" ", "(">>,           close |-> <<")", "*", "*", " ">>, bold |-> FALSE],
  [not |-> "*", mid |-> <<"*", "*", " ", "(">>, close |-> <<")", " ">>,           bold |-> FALSE],
  [not |-> "(", mid |-> <<" ", "(">>,           close |-> <<")", " ">>,           bold |-> TRUE],
  [not |-> "(", mid |-> <<"(">>,                close |-> <<")", " ">>,           bold |-> TRUE],
  [not |-> "(", mid |-> <<"(">>,                close |-> <<")", "*", "*", " ">>, bold |-> FALSE] >>

\* "$" under flag m at position i: the end of the input or just before a line terminator
EndOfLineAt(s, i) == i = Len(s) + 1 \/ (i <= Len(s) /\ s[i] \in LineTerminator)

\* the end of the longest run of characters other than c that starts at i (i-1 when empty)
RunEndNot(s, i, c) ==
  LET stops == {j \in i..Len(s) : s[j] = c}
  IN  IF stops = {} THEN Len(s) ELSE Min(stops) - 1

\* the end of the longest run of "." characters that starts at i (i-1 when empty)
RunEndDot(s, i) ==
  LET stops == {j \in i..Len(s) : s[j] \in LineTerminator}
  IN  IF stops = {} THEN Len(s) ELSE Min(stops) - 1

\* The rest of pattern pat once g1 = s[p..a] is fixed: <mid>(g2)<close>[-–] (g3) and its tail.
\* g2 = [^\)]+ must be followed by ")", so it runs to the first ")"; the tails are greedy.
TitleRestAt(s, a, pat) ==
  LET q  == a + 1 + Len(pat.mid)            \* g2 starts here
      b  == RunEndNot(s, q, ")")            \* g2 ends here
      d  == b + 1 + Len(pat.close)          \* the dash
      t  == d + 2                           \* g3 starts here
      e  == IF pat.bold THEN RunEndNot(s, t, "*") ELSE RunEndDot(s, t)
      ok == /\ HasAt(s, a + 1, pat.mid)
            /\ b >= q
            /\ HasAt(s, b + 1, pat.close)
            /\ d + 1 <= Len(s) /\ s[d] \in DashPattern /\ s[d + 1] = " "
            /\ e >= t
            /\ IF pat.bold
                 THEN HasAt(s, e + 1, <<"*", "*">>) /\ EndOfLineAt(s, e + 3)
                 ELSE EndOfLineAt(s, e + 1)
  IN  IF ok THEN [matched |-> TRUE, g2 |-> SubSeq(s, q, b), g3 |-> SubSeq(s, t, e)]
      ELSE NoMatch

\* The pattern anchored at i: g1 is greedy, so the longest g1 with a matching rest wins.
TitleMatchAt(s, i, pat) ==
  LET p    == i + Len(TitleOpen)
      ends == {a \in p..RunEndNot(s, p, pat.not) : TitleRestAt(s, a, pat).matched}
  IN  IF HasAt(s, i, TitleOpen) /\ ends # {} THEN TitleRestAt(s, Max(ends), pat) ELSE NoMatch

\* text.match(new RegExp(pattern, 'm')): the leftmost position with a match
TitleMatch(s, pat) ==
  LET starts == {i \in 1..Len(s) : TitleMatchAt(s, i, pat).matched}
  IN  IF starts = {} THEN NoMatch ELSE TitleMatchAt(s, Min(starts), pat)

\* the loop of "if (!titleMatch) titleMatch = ..." from pattern k on
RECURSIVE FirstTitleMatch(_, _)
FirstTitleMatch(s, k) ==
  IF k > Len(TitlePatterns) THEN NoMatch
  ELSE LET titleMatch == TitleMatch(s, TitlePatterns[k])
       IN  IF titleMatch.matched THEN titleMatch ELSE FirstTitleMatch(s, k + 1)

\* a call that returned v, and a call that threw instead of returning
Return(v) == [threw |-> FALSE, value |-> v]
Throw == [threw |-> TRUE, value |-> <<>>]

\* extractTitleInfo without "if (!titleMatch) return": titleMatch[2] of null throws
extractTitleInfoUnguarded(s) ==
  LET titleMatch == FirstTitleMatch(s, 1)
  IN  IF ~titleMatch.matched THEN Throw
      ELSE Return([pinyin |-> titleMatch.g2, english |-> Trim(titleMatch.g3)])

extractTitleInfo(s) ==
  LET titleMatch == FirstTitleMatch(s, 1)
  IN  IF ~titleMatch.matched THEN Return([pinyin |-> <<>>, english |-> <<>>])
      ELSE Return([pinyin |-> titleMatch.g2, english |-> Trim(titleMatch.g3)])

-----------------------------------------------------------------------------
(* The section patterns.  Each is  \*\*<Name>:?\*\*:?[\s\S]*?(?=<end>)  with  *)
(* no flag: the header, then as few characters as lead to an <end>.         *)

Bold == <<"*", "*">>
CharacterBreakdownName == <<"C", "h", "a", "r", "a", "c", "t", "e", "r", " ", "B", "r", "e", "a", "k", "d", "o", "w", "n">>
ExamplesName == <<"E", "x", "a", "m", "p", "l", "e", "s">>
UsageNotesName == <<"U", "s", "a", "g", "e", " ", "N", "o", "t", "e", "s">>
MemoryAidsName == <<"M", "e", "m", "o", "r", "y", " ", "A", "i", "d", "s">>

\* \*\*<name>:?\*\*:? anchored at i: the position after it, 0 when it does not match
HeaderEndAt(s, i, name) ==
  LET a == i + Len(Bold) + Len(name)
      b == IF HasAt(s, a, <<":">>) THEN a + 1 ELSE a
      c == b + Len(Bold)
  IN  IF HasAt(s, i, Bold \o name) /\ HasAt(s, b, Bold)
        THEN (IF HasAt(s, c, <<":">>) THEN c + 1 ELSE c)
        ELSE 0

\* "$" with no flag at position e: the end of the input
EndOfInputAt(s, e) == e = Len(s) + 1

\* (?=\n\*\*Examples)
BreakdownEndAt(s, e) == HasAt(s, e, <<"\n">> \o Bold \o ExamplesName)

\* (?=\n\n\*\*(?:Usage Notes|Memory Aids)|\n\n$)
ExamplesEndAt(s, e) ==
  \/ HasAt(s, e, <<"\n", "\n">> \o Bold \o UsageNotesName)
  \/ HasAt(s, e, <<"\n", "\n">> \o Bold \o MemoryAidsName)
  \/ (HasAt(s, e, <<"\n", "\n">>) /\ EndOfInputAt(s, e + 2))

\* (?=\n+\*\*Memory Aids|\n\n$)
UsageNotesEndAt(s, e) ==
  \/ \E k \in 1..(Len(s) - e + 1) :
       /\ \A j \in e..(e + k - 1) : s[j] = "\n"
       /\ HasAt(s, e + k, Bold \o MemoryAidsName)
  \/ (HasAt(s, e, <<"\n", "\n">>) /\ EndOfInputAt(s, e + 2))

\* the "$" that ends the Memory Aids pattern
MemoryAidsEndAt(s, e) == EndOfInputAt(s, e)

\* the lookahead that closes the block of the section of that name
SectionEndAt(s, e, name) ==
  CASE name = CharacterBreakdownName -> BreakdownEndAt(s, e)
    [] name = ExamplesName           -> ExamplesEndAt(s, e)
    [] name = UsageNotesName         -> UsageNotesEndAt(s, e)
    [] name = MemoryAidsName         -> MemoryAidsEndAt(s, e)

\* text.match(pattern): match[0] of the leftmost match, the lazy body ending at the first <end>
SectionMatch(s, name) ==
  LET Ends(i) == {e \in HeaderEndAt(s, i, name)..(Len(s) + 1) : SectionEndAt(s, e, name)}
      starts  == {i \in 1..Len(s) : HeaderEndAt(s, i, name) # 0 /\ Ends(i) # {}}
  IN  IF starts = {} THEN NoMatch
      ELSE [matched |-> TRUE, g0 |-> SubSeq(s, Min(starts), Min(Ends(Min(starts))) - 1)]

Blank(line) == Trim(line) = <<>>

\* line.match(/^\s*/)[0].length
Indent(line) == Len(line) - Len(TrimStart(line))

-----------------------------------------------------------------------------
(* extractCharacterBreakdown                                                *)

\* the for loop over the lines, and the push that follows it
RECURSIVE BreakdownLoop(_, _, _)
BreakdownLoop(lines, result0, buffer) ==
  IF lines = <<>> THEN Append(result0, Join(buffer, <<"\n">>))
  ELSE LET line == Head(lines)
           rest == Tail(lines)
       IN  IF HasAt(line, 1, Bold \o CharacterBreakdownName) THEN BreakdownLoop(rest, result0, buffer)
           ELSE IF Blank(line) THEN BreakdownLoop(rest, result0, buffer)
           ELSE IF Indent(line) = 0
             THEN IF buffer # <<>>
                    THEN BreakdownLoop(rest, Append(result0, Join(buffer, <<"\n">>)), <<line>>)
                    ELSE BreakdownLoop(rest, result0, <<line>>)
             ELSE BreakdownLoop(rest, result0, Append(buffer, line))

\* the lines trimmed at both ends: the indentation that tells a continuation is lost
extractCharacterBreakdownTrimmed(s) ==
  LET breakdownMatch == SectionMatch(s, CharacterBreakdownName)
  IN  IF ~breakdownMatch.matched THEN Return(<<>>)
      ELSE Return(BreakdownLoop(Trimmed(Split(breakdownMatch.g0)), <<>>, <<>>))

extractCharacterBreakdown(s) ==
  LET breakdownMatch == SectionMatch(s, CharacterBreakdownName)
  IN  IF ~breakdownMatch.matched THEN Return(<<>>)
      ELSE Return(BreakdownLoop(TrimmedEnd(Split(breakdownMatch.g0)), <<>>, <<>>))

-----------------------------------------------------------------------------
(* extractExamples                                                          *)

IsBullet(line) == HasAt(Trim(line), 1, <<"-", " ">>)

\* without `if (!examplesMatch) return []`: split of null raises a TypeError
extractExamplesUnguarded(s) ==
  LET examplesMatch == SectionMatch(s, ExamplesName)
  IN  IF ~examplesMatch.matched THEN Throw
      ELSE Return(Trimmed(SelectSeq(Split(examplesMatch.g0), IsBullet)))

extractExamples(s) ==
  LET examplesMatch == SectionMatch(s, ExamplesName)
  IN  IF ~examplesMatch.matched THEN Return(<<>>)
      ELSE Return(Trimmed(SelectSeq(Split(examplesMatch.g0), IsBullet)))

-----------------------------------------------------------------------------
(* extractUsageNotes, extractMemoryAids: the same statements, the header's  *)
(* name apart                                                               *)

\* the lines of the match that are not blank and do not hold the header's name, trimmed,
\* with the text that shares the header's line put first
NotesOf(g0, name) ==
  LET lines       == Split(g0)
      Keep(line)  == ~Blank(line) /\ ~Includes(line, name)
      NotEmpty(l) == l # <<>>
      result0     == SelectSeq(Trimmed(SelectSeq(lines, Keep)), NotEmpty)
      firstLine   == Trim(lines[1])
      namePos     == IndexOfFrom(firstLine, name, 1)
      endPosition == namePos + Len(name)
      firstWhiteSpacePosition == IndexOfFrom(firstLine, <<" ">>, endPosition)
      firstNote   == Trim(From(firstLine, firstWhiteSpacePosition))
  IN  IF namePos # 0 /\ firstWhiteSpacePosition # 0 /\ firstNote # <<>>
        THEN <<firstNote>> \o result0
        ELSE result0

extractUsageNotes(s) ==
  LET usageMatch == SectionMatch(s, UsageNotesName)
  IN  IF ~usageMatch.matched THEN Return(<<>>)
      ELSE Return(NotesOf(usageMatch.g0, UsageNotesName))

extractMemoryAids(s) ==
  LET memoryMatch == SectionMatch(s, MemoryAidsName)
  IN  IF ~memoryMatch.matched THEN Return(<<>>)
      ELSE Return(NotesOf(memoryMatch.g0, MemoryAidsName))

-----------------------------------------------------------------------------
(* updateCharacterReferences.  An object is the sequence of its entries,    *)
(* [key, value], in insertion order.                                        *)

Keys(obj) == {obj[i].key : i \in 1..Len(obj)}

\* obj[k] of a key that is there
Get(obj, k) == obj[CHOOSE i \in 1..Len(obj) : obj[i].key = k].value

\* obj[k] = v
Put(obj, k, v) ==
  IF k \in Keys(obj)
    THEN [i \in 1..Len(obj) |-> IF obj[i].key = k THEN [key |-> k, value |-> v] ELSE obj[i]]
    ELSE Append(obj, [key |-> k, value |-> v])

\* the first position from i on that holds the character c, 0 if none
FirstAt(s, i, c) ==
  LET at == {j \in i..Len(s) : s[j] = c} IN IF at = {} THEN 0 ELSE Min(at)

\* /\*\*([^ ]+) \(([^)]+)\)\*\*/ tried at position i: the end of group 1, 0 if no match
CharEndAt(s, i) ==
  LET space == FirstAt(s, i + 2, " ")
      close == FirstAt(s, space + 2, ")")
  IN  IF /\ HasAt(s, i, Bold)
         /\ space > i + 2
         /\ HasAt(s, space, <<" ", "(">>)
         /\ close > space + 2
         /\ HasAt(s, close, <<")">> \o Bold)
        THEN space - 1 ELSE 0

\* description.match(...): the leftmost match and its group 1
CharMatch(description) ==
  LET starts == {i \in 1..Len(description) : CharEndAt(description, i) # 0}
  IN  IF starts = {} THEN NoMatch
      ELSE [matched |-> TRUE,
            char |-> SubSeq(description, Min(starts) + 2, CharEndAt(description, Min(starts)))]

\* !references[char]: the key is not there, or its value is the empty string
NoReference(refs, char) == char \notin Keys(refs) \/ Get(refs, char) = <<>>

\* the callback without its `if (!references[char])`: the last description is kept
updateCharacterReferenceOverwriting(refs, description) ==
  LET charMatch == CharMatch(description)
  IN  IF charMatch.matched THEN Put(refs, charMatch.char, description) ELSE refs

\* the callback of forEach on one description
updateCharacterReference(refs, description) ==
  LET charMatch == CharMatch(description)
  IN  IF charMatch.matched /\ NoReference(refs, charMatch.char)
        THEN Put(refs, charMatch.char, description)
        ELSE refs

\* the callback without its `if (charMatch)`: charMatch[1] of null throws, which ends the
\* loop of forEach and leaves the index as the descriptions before it made it
RECURSIVE updateCharacterReferencesUnguarded(_, _, _)
updateCharacterReferencesUnguarded(w, characterBreakdown, refs) ==
  IF characterBreakdown = <<>> \/ ~CharMatch(Head(characterBreakdown)).matched THEN refs
  ELSE updateCharacterReferencesUnguarded(w, Tail(characterBreakdown),
                                          updateCharacterReference(refs, Head(characterBreakdown)))

\* the word is not read
RECURSIVE updateCharacterReferences(_, _, _)
updateCharacterReferences(w, characterBreakdown, refs) ==
  IF characterBreakdown = <<>> THEN refs
  ELSE updateCharacterReferences(w, Tail(characterBreakdown),
                                 updateCharacterReference(refs, Head(characterBreakdown)))

-----------------------------------------------------------------------------
(* processFlashcardsData, the callback of forEach past its guard: the five  *)
(* extractors on one flashcard's content, gathered into the entry           *)

parseFlashcard(s) ==
  LET titleInfo          == extractTitleInfo(s)
      characterBreakdown == extractCharacterBreakdown(s)
      examples           == extractExamples(s)
      usageNotes         == extractUsageNotes(s)
      memoryAids         == extractMemoryAids(s)
  IN  IF titleInfo.threw \/ characterBreakdown.threw \/ examples.threw
         \/ usageNotes.threw \/ memoryAids.threw
        THEN Throw
        ELSE Return([pinyin             |-> titleInfo.value.pinyin,
                     english            |-> titleInfo.value.english,
                     characterBreakdown |-> characterBreakdown.value,
                     examples           |-> examples.value,
                     usageNotes         |-> usageNotes.value,
                     memoryAids         |-> memoryAids.value])

-----------------------------------------------------------------------------
(* processFlashcardsData.  A value of the dictionary is [type, value]: type *)
(* is what typeof gives for it, but "null" for null; value is the string's  *)
(* characters, the number's decimal digits, and empty for the other types.  *)

\* !content
Falsy(v) ==
  \/ v.type \in {"null", "undefined"}
  \/ v.type = "number" /\ v.value = <<"0">>
  \/ v.type = "string" /\ v.value = <<>>

\* typeof content
TypeOf(v) == IF v.type = "null" THEN "object" ELSE v.type

NothingProcessed == [threw |-> FALSE, characterReferences |-> <<>>, structuredFlashcards |-> <<>>]

\* the rest of the callback once the extractors have returned: the index is updated and
\* the entry stored under the word
storeFlashcard(st, w, parsed) ==
  IF parsed.threw THEN [st EXCEPT !.threw = TRUE]
  ELSE [threw |-> FALSE,
        characterReferences |->
          updateCharacterReferences(w, parsed.value.characterBreakdown, st.characterReferences),
        structuredFlashcards |-> Put(st.structuredFlashcards, w, parsed.value)]

\* the callback without its guard: text.match of a value that is not a string raises a
\* TypeError, which forEach lets through
processFlashcardUnguarded(st, entry) ==
  IF st.threw \/ entry.value.type # "string" THEN [st EXCEPT !.threw = TRUE]
  ELSE storeFlashcard(st, entry.key, parseFlashcard(entry.value.value))

\* the callback of forEach on one [word, content] of the dictionary
processFlashcard(st, entry) ==
  IF st.threw THEN st
  ELSE IF Falsy(entry.value) \/ TypeOf(entry.value) # "string" THEN st
  ELSE storeFlashcard(st, entry.key, parseFlashcard(entry.value.value))

\* Object.entries(flashcardsData).forEach(callback)
RECURSIVE ForEachFlashcard(_, _)
ForEachFlashcard(entries, st) ==
  IF entries = <<>> THEN st
  ELSE ForEachFlashcard(Tail(entries), processFlashcard(st, Head(entries)))

\* what the function returns once the loop is over: structuredFlashcards alone
ReturnOf(st) == IF st.threw THEN Throw ELSE Return(st.structuredFlashcards)

processFlashcardsData(entries) == ReturnOf(ForEachFlashcard(entries, NothingProcessed))

-----------------------------------------------------------------------------
(* convertToMarkdown                                                        *)

\* the array's presence alone, its length not looked at
PresentField(entry, field) == field \in DOMAIN entry

\* array?.length > 0 of a field that may be absent from the entry
NonEmptyField(entry, field) == field \in DOMAIN entry /\ Len(entry[field]) > 0

\* `**<Name>**:  \n${array.join('  \n')}` and what the template puts after it
Section(entry, field, name, after) ==
  IF NonEmptyField(entry, field)
    THEN Bold \o name \o Bold \o <<":", " ", " ", "\n">>
         \o Join(entry[field], <<" ", " ", "\n">>) \o after
    ELSE <<>>

\* the memory section closed by a blank line like the other three
convertToMarkdownBlankAfterEach(w, entry) ==
  LET title == TitleOpen \o w \o <<" ", "(">> \o entry.pinyin \o <<")", " ", "-", " ">>
               \o entry.english \o Bold \o <<"\n", "\n">>
      breakdownSection == Section(entry, "characterBreakdown", CharacterBreakdownName, <<"\n", "\n">>)
      examplesSection  == Section(entry, "examples", ExamplesName, <<"\n", "\n">>)
      usageSection     == Section(entry, "usageNotes", UsageNotesName, <<"\n", "\n">>)
      memorySection    == Section(entry, "memoryAids", MemoryAidsName, <<"\n", "\n">>)
  IN  title \o breakdownSection \o examplesSection \o usageSection \o memorySection

convertToMarkdown(w, entry) ==
  LET title == TitleOpen \o w \o <<" ", "(">> \o entry.pinyin \o <<")", " ", "-", " ">>
               \o entry.english \o Bold \o <<"\n", "\n">>
      breakdownSection == Section(entry, "characterBreakdown", CharacterBreakdownName, <<"\n", "\n">>)
      examplesSection  == Section(entry, "examples", ExamplesName, <<"\n", "\n">>)
      usageSection     == Section(entry, "usageNotes", UsageNotesName, <<"\n", "\n">>)
      memorySection    == Section(entry, "memoryAids", MemoryAidsName, <<>>)
  IN  title \o breakdownSection \o examplesSection \o usageSection \o memorySection

-----------------------------------------------------------------------------
(* turnChineseWordsIntoLinks                                                *)

\* the ideographs the callers write: U+706B and U+67F4
CJKLetters == {"u706b", "u67f4"}

\* the character class between U+4E00 and U+9FA5: the ideographs of the alphabet
CJK == CJKLetters

\* graph.getNode(id), read as a condition
getNode(g, id) == id \in g

AnchorHref == <<"<", "a", " ", "h", "r", "e", "f", "=", "\"", "h", "t", "t", "p", "s", ":", "/", "/", "g", "i", "t", "h", "u", "b", ".", "c", "o", "m", "/", "a", "n", "v", "a", "k", "a", "/", "l", "a", "n", "g", "-", "l", "a", "n", "d", "-", "d", "a", "t", "a", "/", "b", "l", "o", "b", "/", "m", "a", "i", "n", "/", "h", "s", "k", "/", "v", "1", "/", "c", "a", "r", "d", "s", "/">>
AnchorClass == <<".", "m", "d", "\"", " ", "c", "l", "a", "s", "s", "=", "\"", "w", "o", "r", "d", "-", "l", "i", "n", "k", "\"", " ", "d", "a", "t", "a", "-", "w", "o", "r", "d", "=", "\"">>
AnchorClose == <<"<", "/", "a", ">">>

\* linkIfExists without "if (node)": the anchor is written for any word
linkIfExistsUnchecked(w, g) ==
  IF w = <<>> THEN <<>>
  ELSE AnchorHref \o w \o AnchorClass \o w \o <<"\"", ">">> \o w \o AnchorClose

linkIfExists(w, g) ==
  IF w = <<>> THEN <<>>
  ELSE IF getNode(g, w)
    THEN AnchorHref \o w \o AnchorClass \o w \o <<"\"", ">">> \o w \o AnchorClose
    ELSE w

\* a for loop that counts up: the first prefix found is the shortest, not the longest
RECURSIVE FirstPartLengthAscending(_, _, _)
FirstPartLengthAscending(phrase, g, length) ==
  IF length <= 0 THEN 0
  ELSE IF getNode(g, SubSeq(phrase, 1, Len(phrase) - length)) THEN Len(phrase) - length
  ELSE FirstPartLengthAscending(phrase, g, length - 1)

\* for (let length = ...; length > 0; length--): the first length whose prefix is a node, 0 if none
RECURSIVE FirstPartLength(_, _, _)
FirstPartLength(phrase, g, length) ==
  IF length <= 0 THEN 0
  ELSE IF getNode(g, SubSeq(phrase, 1, length)) THEN length
  ELSE FirstPartLength(phrase, g, length - 1)

RECURSIVE processChinesePhrase(_, _)
processChinesePhrase(phrase, g) ==
  IF Len(phrase) <= 1 THEN linkIfExists(phrase, g)
  ELSE IF getNode(g, phrase) THEN linkIfExists(phrase, g)
  ELSE LET length == FirstPartLength(phrase, g, Len(phrase) - 1)
       IN  IF length > 0
             THEN linkIfExists(SubSeq(phrase, 1, length), g)
                  \o processChinesePhrase(From(phrase, length + 1), g)
             ELSE linkIfExists(<<phrase[1]>>, g) \o processChinesePhrase(Tail(phrase), g)

\* the same function call by call.  A call is [phrase, state, length, rest]: it has been
\* entered, or it waits for the call it made on what follows its first length characters,
\* or it has that call's value in rest and is about to return

\* phrase.substring(0): the call is made on the phrase itself
restOfPhraseFromStart(phrase, length) == phrase

\* phrase.substring(length): the argument of the recursive call
restOfPhrase(phrase, length) == From(phrase, length + 1)

Entered(phrase) == [phrase |-> phrase, state |-> "entered", length |-> 0, rest |-> <<>>]

\* lines 19-26: the call returns without calling itself
BaseCase(phrase, g) == Len(phrase) <= 1 \/ getNode(g, phrase)

\* lines 29-39: the length of the first part, 1 when the loop found none
firstPartOrCharacter(phrase, g) ==
  LET length == FirstPartLength(phrase, g, Len(phrase) - 1)
  IN  IF length > 0 THEN length ELSE 1

\* what the stack is after the innermost call returned value: the caller has it in rest
Resumed(stack, value) ==
  LET outer == SubSeq(stack, 1, Len(stack) - 1)
  IN  IF outer = <<>> THEN outer
      ELSE [outer EXCEPT ![Len(outer)].state = "resumed", ![Len(outer)].rest = value]

\* the length of the match of [一-龥]+ at the head of s
RECURSIVE RunLength(_)
RunLength(s) == IF s # <<>> /\ Head(s) \in CJK THEN 1 + RunLength(Tail(s)) ELSE 0

\* content.match(regex).map(callback).join(''): the rewritten runs alone
RECURSIVE turnChineseWordsIntoLinksRunsOnly(_, _)
turnChineseWordsIntoLinksRunsOnly(s, g) ==
  IF s = <<>> THEN <<>>
  ELSE IF Head(s) \in CJK
    THEN processChinesePhrase(SubSeq(s, 1, RunLength(s)), g)
         \o turnChineseWordsIntoLinksRunsOnly(From(s, RunLength(s) + 1), g)
    ELSE turnChineseWordsIntoLinksRunsOnly(Tail(s), g)

\* content.replace(/[一-龥]+/g, callback): each match, leftmost and longest, gives
\* way to what the callback returns; the text between the matches stays
RECURSIVE turnChineseWordsIntoLinks(_, _)
turnChineseWordsIntoLinks(s, g) ==
  IF s = <<>> THEN <<>>
  ELSE IF Head(s) \in CJK
    THEN processChinesePhrase(SubSeq(s, 1, RunLength(s)), g)
         \o turnChineseWordsIntoLinks(From(s, RunLength(s) + 1), g)
    ELSE <<Head(s)>> \o turnChineseWordsIntoLinks(Tail(s), g)

-----------------------------------------------------------------------------
(* Sidebar (src/sidebar.js).  A label is a word of the map; the markdown of  *)
(* its card is a string, '' when the fetch failed.  The content element is  *)
(* [kind, label, content, linked]: nothing before initialize(), the welcome *)
(* text, the loading bar, or the card of a label, linked when the graph was *)
(* there at the render.                                                     *)

\* this.lastLabel before the first open()
NoLabel == "undefined"

NoElement == [kind |-> "none",    label |-> NoLabel, content |-> <<>>, linked |-> FALSE]
Loading   == [kind |-> "loading", label |-> NoLabel, content |-> <<>>, linked |-> FALSE]

\* rerenderWhenGraphReady = null
NoRender == [bound |-> FALSE, label |-> NoLabel, content |-> <<>>]

\* this.flashcards[label] is truthy
Cached(cache, label) == label \in Keys(cache) /\ Get(cache, label) # <<>>

\* renderContent(label, content): what the content element shows after it
renderContent(label, c, graphReady) ==
  [kind |-> "content", label |-> label, content |-> c, linked |-> graphReady]

\* line 222: the render is kept for the graph's arrival when the graph is not there
rerenderAfter(pending, label, c, graphReady) ==
  IF graphReady THEN pending ELSE [bound |-> TRUE, label |-> label, content |-> c]

-----------------------------------------------------------------------------
(* The callers' arguments for extractTitleInfo: title lines written in the  *)
(* five shapes of the tests, and texts with no title.                       *)

Headwords == { <<"u5199">>, <<"u4eb2", "u7231">> }
Pinyins   == { <<"x", "i", "e">>,
               <<"z", "h", "e", "n", "g", " ", "q", "i", "u">> }
Glosses   == { <<"t", "o", " ", "w", "r", "i", "t", "e">>,
               <<"M", "a", "t", "c", "h", " ", "(", "f", "o", "r", " ", "f", "i", "r", "e", ")">> }

\* the separators of the documented shapes: hyphen-minus and en dash
HyphenOrEnDash == {"-", "u2013"}

\* the separators callers write: these two, and an em dash and a colon
Separators == HyphenOrEnDash \cup {"u2014", ":"}

\* a title line in shape k (1..5) with the separator dash
TitleLine(t) ==
  LET h == t.headword
      p == t.pinyin
      g == t.english
      d == <<" ", t.dash, " ">>
  IN  CASE t.shape = 1 -> TitleOpen \o h \o <<" ", "(">> \o p \o <<")", "*", "*">> \o d \o g
        [] t.shape = 2 -> TitleOpen \o h \o <<"*", "*", " ", "(">> \o p \o <<")">> \o d \o g
        [] t.shape = 3 -> TitleOpen \o h \o <<" ", "(">> \o p \o <<")">> \o d \o g \o <<"*", "*">>
        [] t.shape = 4 -> TitleOpen \o h \o <<"(">> \o p \o <<")">> \o d \o g \o <<"*", "*">>
        [] t.shape = 5 -> TitleOpen \o h \o <<"(">> \o p \o <<")", "*", "*">> \o d \o g

Shapes == 1..5

Titles == [shape : Shapes, dash : Separators, headword : Headwords, pinyin : Pinyins,
           english : Glosses]

\* the k-th title line of a text with several: the headword, pinyin and gloss tell the lines apart
NthTitle(k, shape, dash) ==
  [shape |-> shape, dash |-> dash, headword |-> <<"u5199">>,
   pinyin |-> <<"p", "y">> \o [i \in 1..k |-> "n"],
   english |-> <<"g", "l">> \o [i \in 1..k |-> "o"]]

\* the number of title lines a text holds at most
MaxTitleLines == 2

RECURSIVE TitleSeqs(_)
TitleSeqs(n) ==
  IF n = 0 THEN {<<>>}
  ELSE LET shorter == TitleSeqs(n - 1)
       IN  shorter \cup
           {Append(ts, NthTitle(n, k, d)) : ts \in {x \in shorter : Len(x) = n - 1},
                                            k \in Shapes, d \in HyphenOrEnDash}

\* what follows the title in the tests: nothing, or the next section's header
AfterTitle == { <<>>, <<"\n", "\n", "*", "*", "C", "h", "a", "r", "a", "c", "t", "e", "r", " ", "B", "r", "e", "a", "k", "d", "o", "w", "n", "*", "*", ":", " ", " ">> }

\* texts of the tests that hold no title at all
Untitled == { <<>>,
              <<"I", "n", "v", "a", "l", "i", "d", " ", "f", "o", "r", "m", "a", "t">>,
              <<"#", " ", "I", "n", "c", "o", "m", "p", "l", "e", "t", "e", " ", "t", "i", "t", "l", "e", "\n", " ", " ", " ", " ", "S", "o", "m", "e", " ", "r", "a", "n", "d", "o", "m", " ", "t", "e", "x", "t">> }

TitleGivens ==
  {[titles |-> <<t>>, rest |-> r] : t \in Titles, r \in AfterTitle}
  \cup {[titles |-> ts, rest |-> <<>>] : ts \in {x \in TitleSeqs(MaxTitleLines) : Len(x) >= 2}}
  \cup {[titles |-> <<>>, rest |-> r] : r \in Untitled}

TitleText(g) == Join([i \in 1..Len(g.titles) |-> TitleLine(g.titles[i])], <<"\n">>) \o g.rest

\* the number of spaces a caller writes around the pinyin and around the gloss at most
MaxPad == 1

Spaces(n) == [i \in 1..n |-> " "]

\* a title line in one of the five shapes, with spaces inside the parentheses around the
\* pinyin and around the gloss
SpacedTitles ==
  [title : [shape : Shapes, dash : HyphenOrEnDash, headword : {<<"u597d">>},
            pinyin : {<<"h", "a", "o">>, <<"z", "h", "e", "n", "g", " ", "q", "i", "u">>}, english : Glosses],
   pinyinLeft : 0..MaxPad, pinyinRight : 0..MaxPad,
   englishLeft : 0..MaxPad, englishRight : 0..MaxPad]

SpacedTitleText(g) ==
  TitleLine([g.title EXCEPT
               !.pinyin  = Spaces(g.pinyinLeft) \o g.title.pinyin \o Spaces(g.pinyinRight),
               !.english = Spaces(g.englishLeft) \o g.title.english \o Spaces(g.englishRight)])

-----------------------------------------------------------------------------
(* The callers' arguments for the section extractors: a header line, up to  *)
(* MaxBodyLines lines under it, and what follows the section.               *)

\* the number of lines a caller writes under a section header at most
MaxBodyLines == 3

RECURSIVE SeqsUpTo(_, _)
SeqsUpTo(S, n) ==
  IF n = 0 THEN {<<>>}
  ELSE LET shorter == SeqsUpTo(S, n - 1)
       IN  shorter \cup {Append(q, x) : q \in {y \in shorter : Len(y) = n - 1}, x \in S}

\* the title that opens a flashcard, when the text holds more than the section
BeforeSection == { <<>>, <<"#", " ", "*", "*", "u597d", " ", "(", "h", "a", "o", ")", "*", "*", " ", "-", " ", "G", "o", "o", "d", "\n", "\n">> }

SectionGivens(headers, lines, follows) ==
  [before : BeforeSection, header : headers, body : SeqsUpTo(lines, MaxBodyLines), follow : follows]

SectionText(g) ==
  g.before \o g.header \o (IF g.body = <<>> THEN <<>> ELSE <<"\n">> \o Join(g.body, <<"\n">>))
  \o g.follow

BreakdownHeaders == { <<"*", "*", "C", "h", "a", "r", "a", "c", "t", "e", "r", " ", "B", "r", "e", "a", "k", "d", "o", "w", "n", "*", "*", ":", " ", " ">>,
                      <<"*", "*", "C", "h", "a", "r", "a", "c", "t", "e", "r", " ", "B", "r", "e", "a", "k", "d", "o", "w", "n", ":", "*", "*">> }
BreakdownLines == { <<"-", " ", "a">>, <<" ", " ", "-", " ", "b", " ", " ">>, <<"c", " ">>, <<>>, <<" ", " ">> }
ExamplesSectionNext == <<"\n", "\n", "*", "*", "E", "x", "a", "m", "p", "l", "e", "s", "*", "*", ":", "\n", "-", " ", "e", "\n", "\n">>
BreakdownFollows == { ExamplesSectionNext, <<"\n", "*", "*", "E", "x", "a", "m", "p", "l", "e", "s", ":", "*", "*", "\n", "-", " ", "e">>,
                      <<>>, <<"\n", "\n", "*", "*", "M", "e", "m", "o", "r", "y", " ", "A", "i", "d", "s", "*", "*", ":", "\n", "-", " ", "m">> }

ExamplesHeaders == { <<"*", "*", "E", "x", "a", "m", "p", "l", "e", "s", "*", "*", ":", " ", " ">>, <<"*", "*", "E", "x", "a", "m", "p", "l", "e", "s", ":", "*", "*">> }
ExamplesLines == { <<"-", " ", "a">>, <<" ", " ", "-", " ", "b", " ", " ">>, <<"c", " ">>, <<>>, <<"-", "d">> }
ExamplesFollows == { <<>>, <<"\n", "\n">>, <<"\n", "\n", "*", "*", "M", "e", "m", "o", "r", "y", " ", "A", "i", "d", "s", "*", "*", ":", "\n", "-", " ", "m">>,
                     <<"\n", "\n", "*", "*", "U", "s", "a", "g", "e", " ", "N", "o", "t", "e", "s", "*", "*", ":", "\n", "-", " ", "n", "\n", "\n", "*", "*", "M", "e", "m", "o", "r", "y", " ", "A", "i", "d", "s", "*", "*", ":", "\n", "-", " ", "m">> }

SameLineNote == <<"u5e38", "u7528", " ", "i", "n", " ", "s", "c", "h", "o", "o", "l", "s">>
UsageHeaderWithNote == <<"*", "*", "U", "s", "a", "g", "e", " ", "N", "o", "t", "e", "s", "*", "*", ":", " ">> \o SameLineNote
UsageHeaders == { <<"*", "*", "U", "s", "a", "g", "e", " ", "N", "o", "t", "e", "s", "*", "*", ":", " ", " ">>, <<"*", "*", "U", "s", "a", "g", "e", " ", "N", "o", "t", "e", "s", ":", "*", "*">>,
                  UsageHeaderWithNote }
UsageLines == { <<"-", " ", "a">>, <<" ", " ", "-", " ", "b", " ", " ">>, <<"c", " ">>, <<>> }
UsageFollows == { <<>>, <<"\n", "\n">>, <<"\n", "\n", "*", "*", "M", "e", "m", "o", "r", "y", " ", "A", "i", "d", "s", "*", "*", ":", "\n", "-", " ", "m">>, <<"\n", "*", "*", "M", "e", "m", "o", "r", "y", " ", "A", "i", "d", "s", "*", "*", ":", "\n", "-", " ", "m">> }

MemoryNote == <<"t", "h", "i", "n", "k", " ", "o", "f", " ", "f", "i", "r", "e">>
MemoryHeaderWithNote == <<"*", "*", "M", "e", "m", "o", "r", "y", " ", "A", "i", "d", "s", "*", "*", ":", " ">> \o MemoryNote
MemoryHeaders == { <<"*", "*", "M", "e", "m", "o", "r", "y", " ", "A", "i", "d", "s", "*", "*", ":", " ", " ">>, <<"*", "*", "M", "e", "m", "o", "r", "y", " ", "A", "i", "d", "s", ":", "*", "*">>,
                   MemoryHeaderWithNote }
\* the last line is a note that names the section
MemoryLines == { <<"-", " ", "a">>, <<" ", " ", "-", " ", "b", " ", " ">>, <<>>, <<"-", " ", "s", "e", "e", " ", "M", "e", "m", "o", "r", "y", " ", "A", "i", "d", "s", " ", "o", "f", " ", "c">> }
MemoryFollows == { <<>>, <<"\n">>, <<"\n", "\n">> }

-----------------------------------------------------------------------------
(* The callers' arguments for a whole flashcard, for the composer and for   *)
(* the segmenter.                                                           *)

\* the number of lines of a flashcard handed to the parser at most
MaxDocLines == 3

DocLines == { <<"#", " ", "*", "*", "u597d", " ", "(", "h", "a", "o", ")", "*", "*", " ", "-", " ", "G", "o", "o", "d">>,
              <<"*", "*", "C", "h", "a", "r", "a", "c", "t", "e", "r", " ", "B", "r", "e", "a", "k", "d", "o", "w", "n", "*", "*", ":">>,
              <<"*", "*", "E", "x", "a", "m", "p", "l", "e", "s", "*", "*", ":">>,
              <<"*", "*", "U", "s", "a", "g", "e", " ", "N", "o", "t", "e", "s", "*", "*", ":", " ", "n">>,
              <<"*", "*", "M", "e", "m", "o", "r", "y", " ", "A", "i", "d", "s", "*", "*", ":">>,
              <<"-", " ", "a">>, <<" ", " ", "b">>, <<>> }

DocGivens == [lines : SeqsUpTo(DocLines, MaxDocLines)]

DocText(g) == Join(g.lines, <<"\n">>)

\* the number of entries in each list of a structured entry at most
MaxEntries == 2

\* the lists of a structured entry: the first n of the entries the tests write
Prefixes(list) == {SubSeq(list, 1, n) : n \in 0..Min({MaxEntries, Len(list)})}

BreakdownEntries == << <<"-", " ", "a", "\n", " ", " ", "-", " ", "b">>, <<"-", " ", "c">>, <<"-", " ", "d">> >>
ExampleEntries == << <<"-", " ", "x">>, <<"-", " ", "y">>, <<"-", " ", "z">> >>
UsageEntries == << <<"-", " ", "u">>, <<"v">>, <<"-", " ", "w">> >>
MemoryEntries == << <<"-", " ", "m">>, <<"n">>, <<"-", " ", "o">> >>

Entries == [pinyin : Pinyins, english : Glosses,
            characterBreakdown : Prefixes(BreakdownEntries), examples : Prefixes(ExampleEntries),
            usageNotes : Prefixes(UsageEntries), memoryAids : Prefixes(MemoryEntries)]

ListFields == {"characterBreakdown", "examples", "usageNotes", "memoryAids"}

\* the entries with some of the lists left out
SparseEntries ==
  {[f \in {"pinyin", "english"} \cup kept |-> e[f]] : e \in Entries, kept \in SUBSET ListFields}

\* the number of characters of a text handed to the segmenter at most
MaxContentLen == 4

Alphabet == CJKLetters \cup {"x", " "}

\* the runs of ideographs the regular expression hands to processChinesePhrase
Runs == {r \in SeqsUpTo(CJKLetters, MaxContentLen) : r # <<>>}

\* the depth of the recursion the model follows
MaxDepth == MaxContentLen + 1

\* the number of calls of Sidebar.open at most
MaxOpens == 3

\* the labels the user opens
Labels == {"u706b", "u67f4"}

\* the markdown the server has for a label
CardOf(label) == <<"#", " ", label>>

\* Date.now() when the page is loaded, in milliseconds since the epoch: 10^9, the 12th of
\* January 1970.  The clocks of the browsers are later than that
ClockStart == 1000000000

\* the clock is read every twelve hours, in milliseconds
ClockStep == 43200000

\* the number of steps of the clock at most
MaxClockSteps == 5

\* the number of clicks recorded at most
MaxClicks == 3

\* the arguments of getRecentClicks
Days == {1, 2}

\* getRecentClicks has not been called
NoRecent == [days |-> 0, now |-> 0, value |-> <<>>]

\* the number of calls of loadRegions at most
MaxLoads == 3

\* the region ids the callers ask for
RegionIds == {"r1", "r2"}

\* the number of calls of getGraph at most
MaxGraphCalls == 5

\* the node ids a graph may hold
Words == { <<"u706b">>, <<"u67f4">>, <<"u706b", "u67f4">>, <<"u67f4", "u67f4">> }

\* the number of descriptions handed to updateCharacterReferences, over all its calls, at most
MaxDescriptions == 3

\* a description of the breakdown: with the shape '**<char> (<pinyin>)**' or without it
Characters == {<<c>> : c \in CJKLetters}

DescriptionGivens == [char : Characters, gloss : { <<"F", "i", "r", "e", ",", " ", "f", "l", "a", "m", "e", ".">>, <<"F", "i", "r", "e", "w", "o", "o", "d">> }, shaped : BOOLEAN]

DescriptionText(d) ==
  IF d.shaped
    THEN <<"-", " ", "*", "*">> \o d.char \o <<" ", "(", "h", "u", "o", ")", "*", "*", ":", " ">> \o d.gloss
    ELSE <<"-", " ">> \o d.char \o <<":", " ">> \o d.gloss

DescriptionTexts(list) == [i \in 1..Len(list) |-> DescriptionText(list[i])]

\* the index before the first call: empty, or with a description that is there already
ExistingDescription == <<"-", " ", "*", "*", "u706b", " ", "(", "h", "u", "o", ")", "*", "*", ":", " ", "E", "x", "i", "s", "t", "i", "n", "g", " ", "d", "e", "s", "c", "r", "i", "p", "t", "i", "o", "n">>
InitialReferences == { <<>>, <<[key |-> <<"u706b">>, value |-> ExistingDescription]>> }

\* the number of entries of the dictionary handed to processFlashcardsData at most
MaxCards == 2

MinimalCard == <<"#", " ", "*", "*", "u597d", " ", "(", "h", "a", "o", ")", "*", "*", " ", "-", " ", "G", "o", "o", "d">>
MatchCard == <<"#", " ", "*", "*", "u706b", "u67f4", " ", "(", "h", "u", "o", "c", "h", "a", "i", ")", "*", "*", " ", "-", " ", "M", "a", "t", "c", "h", "\n", "\n", "*", "*", "C", "h", "a", "r", "a", "c", "t", "e", "r", " ", "B", "r", "e", "a", "k", "d", "o", "w", "n", "*", "*", ":", "\n", "-", " ", "*", "*", "u706b", " ", "(", "h", "u", "o", ")", "*", "*", ":", " ", "F", "i", "r", "e", "\n", "-", " ", "*", "*", "u67f4", " ", "(", "c", "h", "a", "i", ")", "*", "*", ":", " ", "W", "o", "o", "d", "\n", "\n", "*", "*", "E", "x", "a", "m", "p", "l", "e", "s", "*", "*", ":", "\n", "-", " ", "e", "\n", "\n", "*", "*", "M", "e", "m", "o", "r", "y", " ", "A", "i", "d", "s", "*", "*", ":", "\n", "-", " ", "m">>
FireCard == <<"#", " ", "*", "*", "u706b", " ", "(", "h", "u", "o", ")", "*", "*", " ", "-", " ", "F", "i", "r", "e", "\n", "\n", "*", "*", "C", "h", "a", "r", "a", "c", "t", "e", "r", " ", "B", "r", "e", "a", "k", "d", "o", "w", "n", "*", "*", ":", "\n", "-", " ", "*", "*", "u706b", " ", "(", "h", "u", "o", ")", "*", "*", ":", " ", "F", "l", "a", "m", "e", "\n", "\n", "*", "*", "E", "x", "a", "m", "p", "l", "e", "s", "*", "*", ":", "\n", "-", " ", "f", "\n", "\n">>

Null == [type |-> "null", value |-> <<>>]
Undefined == [type |-> "undefined", value |-> <<>>]
String(chars) == [type |-> "string", value |-> chars]

CardValues == { Null, Undefined, [type |-> "number", value |-> <<"1", "2", "3">>],
                [type |-> "object", value |-> <<>>],
                String(<<>>), String(MinimalCard), String(MatchCard), String(FireCard) }

CardKeys == { <<"i", "n", "v", "a", "l", "i", "d", "1">>, <<"u597d">>, <<"u706b", "u67f4">> }

\* the dictionaries: entries with keys that differ
RECURSIVE Dictionaries(_)
Dictionaries(n) ==
  IF n = 0 THEN {<<>>}
  ELSE Dictionaries(n - 1)
       \cup {Append(d, [key |-> k, value |-> v]) :
               d \in {e \in Dictionaries(n - 1) : Len(e) = n - 1}, k \in CardKeys, v \in CardValues}

DistinctKeys(d) == Cardinality(Keys(d)) = Len(d)

-----------------------------------------------------------------------------
(* The callers.  Each specification draws the arguments of an exported      *)
(* function from their bounded sets and calls the function.                 *)

\* the entry with nothing in it
EmptyEntry == [pinyin |-> <<>>, english |-> <<>>, characterBreakdown |-> <<>>,
               examples |-> <<>>, usageNotes |-> <<>>, memoryAids |-> <<>>]

\* the parts of the state a caller of the parser leaves alone
NoComposer  == word = <<>> /\ data = EmptyEntry
NoSegmenter == content = <<>> /\ graph = {} /\ html = <<>>
NoBatch     == references = <<>> /\ flashcardsData = <<>>

\* the sidebar as its constructor leaves it, before initialize() has made its elements
NoSidebar ==
  /\ lastLabel = NoLabel
  /\ isOpen = FALSE
  /\ flashcards = <<>>
  /\ pendingRequests = {}
  /\ contentElement = NoElement
  /\ awaiting = <<>>
  /\ sidebarGraph = FALSE
  /\ rerenderWhenGraphReady = NoRender
  /\ opens = 0

\* the service as its constructor leaves it
NoRegions ==
  /\ regionCache = {}
  /\ loadingRegions = {}
  /\ loads = <<>>
  /\ resolved = <<>>
  /\ served = {}

\* graph.js as the module's load leaves it
NoGraphCache ==
  /\ graphCache = FALSE
  /\ graphFetches = 0
  /\ graphCalls = <<>>
  /\ graphHits = 0

\* no history is stored
NoStats ==
  /\ localStorage = <<>>
  /\ clock = ClockStart
  /\ recent = NoRecent

NoPage == NoSidebar /\ NoRegions /\ NoGraphCache /\ NoStats
NoApp  == calls = <<>> /\ NoPage

InitTitle ==
  /\ NoApp
  /\ pc = "extractTitleInfo"
  /\ fn = "none"
  /\ given \in TitleGivens
  /\ text = TitleText(given)
  /\ result = Return(<<>>)
  /\ NoComposer
  /\ NoSegmenter
  /\ NoBatch

ExtractTitleInfo ==
  /\ pc = "extractTitleInfo"
  /\ result' = extractTitleInfo(text)
  /\ fn' = pc
  /\ pc' = "done"
  /\ UNCHANGED <<text, word, data, content, graph, html, given, references, flashcardsData, appState>>

SpecTitle == InitTitle /\ [][ExtractTitleInfo]_vars

InitTitleSpacing ==
  /\ NoApp
  /\ pc = "extractTitleInfo"
  /\ fn = "none"
  /\ given \in SpacedTitles
  /\ text = SpacedTitleText(given)
  /\ result = Return(<<>>)
  /\ NoComposer
  /\ NoSegmenter
  /\ NoBatch

SpecTitleSpacing == InitTitleSpacing /\ [][ExtractTitleInfo]_vars

InitSection(name, givens) ==
  /\ NoApp
  /\ pc = name
  /\ fn = "none"
  /\ given \in givens
  /\ text = SectionText(given)
  /\ result = Return(<<>>)
  /\ NoComposer
  /\ NoSegmenter
  /\ NoBatch

InitBreakdown == InitSection("extractCharacterBreakdown",
                             SectionGivens(BreakdownHeaders, BreakdownLines, BreakdownFollows))

ExtractCharacterBreakdown ==
  /\ pc = "extractCharacterBreakdown"
  /\ result' = extractCharacterBreakdown(text)
  /\ fn' = pc
  /\ pc' = "done"
  /\ UNCHANGED <<text, word, data, content, graph, html, given, references, flashcardsData, appState>>

SpecBreakdown == InitBreakdown /\ [][ExtractCharacterBreakdown]_vars

InitExamples == InitSection("extractExamples",
                            SectionGivens(ExamplesHeaders, ExamplesLines, ExamplesFollows))

ExtractExamples ==
  /\ pc = "extractExamples"
  /\ result' = extractExamples(text)
  /\ fn' = pc
  /\ pc' = "done"
  /\ UNCHANGED <<text, word, data, content, graph, html, given, references, flashcardsData, appState>>

SpecExamples == InitExamples /\ [][ExtractExamples]_vars

InitUsage == InitSection("extractUsageNotes",
                         SectionGivens(UsageHeaders, UsageLines, UsageFollows))

ExtractUsageNotes ==
  /\ pc = "extractUsageNotes"
  /\ result' = extractUsageNotes(text)
  /\ fn' = pc
  /\ pc' = "done"
  /\ UNCHANGED <<text, word, data, content, graph, html, given, references, flashcardsData, appState>>

SpecUsage == InitUsage /\ [][ExtractUsageNotes]_vars

InitMemory == InitSection("extractMemoryAids",
                          SectionGivens(MemoryHeaders, MemoryLines, MemoryFollows))

ExtractMemoryAids ==
  /\ pc = "extractMemoryAids"
  /\ result' = extractMemoryAids(text)
  /\ fn' = pc
  /\ pc' = "done"
  /\ UNCHANGED <<text, word, data, content, graph, html, given, references, flashcardsData, appState>>

SpecMemory == InitMemory /\ [][ExtractMemoryAids]_vars

InitParse ==
  /\ NoApp
  /\ pc = "parseFlashcard"
  /\ fn = "none"
  /\ given \in DocGivens
  /\ text = DocText(given)
  /\ result = Return(<<>>)
  /\ NoComposer
  /\ NoSegmenter
  /\ NoBatch

\* the five extractors on one text and the entry gathered from what they return; the guard
\* that skips a content that is empty or not a string is the caller's
ParseFlashcard ==
  /\ pc = "parseFlashcard"
  /\ result' = parseFlashcard(text)
  /\ fn' = pc
  /\ pc' = "done"
  /\ UNCHANGED <<text, word, data, content, graph, html, given, references, flashcardsData, appState>>

SpecParse == InitParse /\ [][ParseFlashcard]_vars

InitRoundTrip ==
  /\ NoApp
  /\ pc = "convertToMarkdown"
  /\ fn = "none"
  /\ word \in Headwords
  /\ data \in Entries
  /\ given = data
  /\ text = <<>>
  /\ result = Return(<<>>)
  /\ NoSegmenter
  /\ NoBatch

\* compressFlashcardsData writes the markdown of the entry, which the parser then reads
ConvertToMarkdown ==
  /\ pc = "convertToMarkdown"
  /\ text' = convertToMarkdown(word, data)
  /\ fn' = pc
  /\ pc' = "parseFlashcard"
  /\ UNCHANGED <<result, word, data, content, graph, html, given, references, flashcardsData, appState>>

SpecRoundTrip == InitRoundTrip /\ [][ConvertToMarkdown \/ ParseFlashcard]_vars

InitCompose ==
  /\ NoApp
  /\ pc = "convertToMarkdown"
  /\ fn = "none"
  /\ word \in Headwords
  /\ data \in SparseEntries
  /\ given = data
  /\ text = <<>>
  /\ result = Return(<<>>)
  /\ NoSegmenter
  /\ NoBatch

SpecCompose == InitCompose /\ [][ConvertToMarkdown]_vars

InitSegmenter ==
  /\ NoApp
  /\ pc = "turnChineseWordsIntoLinks"
  /\ fn = "none"
  /\ content \in SeqsUpTo(Alphabet, MaxContentLen)
  /\ graph \in SUBSET Words
  /\ html = <<>>
  /\ given = <<>>
  /\ text = <<>>
  /\ result = Return(<<>>)
  /\ NoComposer
  /\ NoBatch

TurnChineseWordsIntoLinks ==
  /\ pc = "turnChineseWordsIntoLinks"
  /\ html' = turnChineseWordsIntoLinks(content, graph)
  /\ fn' = pc
  /\ pc' = "done"
  /\ UNCHANGED <<text, result, word, data, content, graph, given, references, flashcardsData, appState>>

SpecSegmenter == InitSegmenter /\ [][TurnChineseWordsIntoLinks]_vars

\* no caller of the parser, the composer or the segmenter is at work
NoLib ==
  /\ pc = "done"
  /\ fn = "none"
  /\ text = <<>>
  /\ result = Return(<<>>)
  /\ given = <<>>
  /\ NoComposer
  /\ NoSegmenter
  /\ NoBatch

InitSidebar ==
  /\ NoLib
  /\ calls = <<>>
  /\ NoSidebar
  /\ NoRegions
  /\ NoGraphCache
  /\ NoStats

\* Sidebar.open(label), with showContentForLabel up to its await and, when the card is in
\* the cache, the render that follows in the same turn of the event loop
Open ==
  /\ opens < MaxOpens
  /\ opens' = opens + 1
  /\ \E label \in Labels :
       IF lastLabel = label /\ isOpen
         THEN UNCHANGED <<lastLabel, isOpen, flashcards, pendingRequests, contentElement, awaiting,
                          sidebarGraph, rerenderWhenGraphReady>>
         ELSE /\ lastLabel' = label
              /\ isOpen' = TRUE
              /\ IF Cached(flashcards, label)
                   THEN /\ contentElement' = renderContent(label, Get(flashcards, label), sidebarGraph)
                        /\ rerenderWhenGraphReady' =
                             rerenderAfter(rerenderWhenGraphReady, label, Get(flashcards, label), sidebarGraph)
                        /\ UNCHANGED <<pendingRequests, awaiting>>
                   ELSE /\ contentElement' = Loading
                        /\ pendingRequests' = pendingRequests \cup {label}
                        /\ awaiting' = Append(awaiting, label)
                        /\ UNCHANGED rerenderWhenGraphReady
              /\ UNCHANGED <<flashcards, sidebarGraph>>
  /\ UNCHANGED <<libState, calls, regionsState, graphState, statsState>>

\* Sidebar.close()
Close ==
  /\ isOpen' = (IF contentElement = NoElement THEN isOpen ELSE FALSE)
  /\ UNCHANGED <<lastLabel, flashcards, pendingRequests, contentElement, awaiting, sidebarGraph,
                 rerenderWhenGraphReady, opens>>
  /\ UNCHANGED <<libState, calls, regionsState, graphState, statsState>>

\* the fetch of loadFlashcard(label) settles, with the card or with a failure: the cache
\* is written, the request is no longer pending, and the calls of showContentForLabel
\* that awaited it render what came
FetchSettles ==
  /\ \E label \in pendingRequests :
       \E c \in {CardOf(label), <<>>} :
         /\ flashcards' = Put(flashcards, label, c)
         /\ pendingRequests' = pendingRequests \ {label}
         /\ awaiting' = SelectSeq(awaiting, LAMBDA l : l # label)
         /\ contentElement' = renderContent(label, c, sidebarGraph)
         /\ rerenderWhenGraphReady' = rerenderAfter(rerenderWhenGraphReady, label, c, sidebarGraph)
  /\ UNCHANGED <<lastLabel, isOpen, sidebarGraph, opens>>
  /\ UNCHANGED <<libState, calls, regionsState, graphState, statsState>>

\* lines 11-18: the graph arrives, and the render that waited for it is made again
GraphArrives ==
  /\ ~sidebarGraph
  /\ sidebarGraph' = TRUE
  /\ contentElement' =
       IF rerenderWhenGraphReady.bound
         THEN renderContent(rerenderWhenGraphReady.label, rerenderWhenGraphReady.content, TRUE)
         ELSE contentElement
  /\ rerenderWhenGraphReady' = NoRender
  /\ UNCHANGED <<lastLabel, isOpen, flashcards, pendingRequests, awaiting, opens>>
  /\ UNCHANGED <<libState, calls, regionsState, graphState, statsState>>

NextSidebar == Open \/ Close \/ FetchSettles \/ GraphArrives

SpecSidebar == InitSidebar /\ [][NextSidebar]_vars

-----------------------------------------------------------------------------
(* RegionsService (src/regionsService.js).  The data of a region is the     *)
(* content of its file, one per id: the cache and a result are the sets of  *)
(* the ids they hold data for.  A fetch succeeds when the server has the    *)
(* file.                                                                    *)

\* lines 51-58: the requested regions the cache holds
resultFromCache(regionIds, cache) == regionIds \cap cache

\* lines 24-43: the ids the call starts a fetch for
regionsToLoad(regionIds, cache, loading) == (regionIds \ cache) \ loading

InitRegions ==
  /\ NoLib
  /\ calls = <<>>
  /\ NoSidebar
  /\ NoGraphCache
  /\ NoStats
  /\ regionCache = {}
  /\ loadingRegions = {}
  /\ loads = <<>>
  /\ resolved = <<>>
  /\ served \in SUBSET RegionIds

\* loadRegions(regionIds) up to its await, or to its return when it has no fetch of its
\* own to wait for
LoadRegions ==
  /\ Len(loads) + Len(resolved) < MaxLoads
  /\ \E regionIds \in SUBSET RegionIds :
       \E toLoad \in {regionsToLoad(regionIds, regionCache, loadingRegions)} :
         /\ loadingRegions' = loadingRegions \cup toLoad
         /\ IF toLoad = {}
              THEN /\ resolved' = Append(resolved, [regionIds |-> regionIds,
                                                    result |-> resultFromCache(regionIds, regionCache)])
                   /\ UNCHANGED loads
              ELSE /\ loads' = Append(loads, [regionIds |-> regionIds, loadPromises |-> toLoad])
                   /\ UNCHANGED resolved
  /\ UNCHANGED <<regionCache, served>>
  /\ UNCHANGED <<libState, calls, sidebarState, graphState, statsState>>

\* the fetch of a region settles: lines 30-39 write the cache on success and take the id
\* out of loadingRegions; the call whose last fetch this was resumes after its await and
\* returns what the cache has
RegionFetchSettles ==
  /\ \E id \in loadingRegions :
       \E cache \in {IF id \in served THEN regionCache \cup {id} ELSE regionCache} :
         /\ regionCache' = cache
         /\ loadingRegions' = loadingRegions \ {id}
         /\ loads' = [i \in 1..Len(SelectSeq(loads, LAMBDA w : w.loadPromises # {id})) |->
                        LET w == SelectSeq(loads, LAMBDA v : v.loadPromises # {id})[i]
                        IN  [w EXCEPT !.loadPromises = @ \ {id}]]
         /\ resolved' = resolved \o
              [i \in 1..Len(SelectSeq(loads, LAMBDA w : w.loadPromises = {id})) |->
                 LET w == SelectSeq(loads, LAMBDA v : v.loadPromises = {id})[i]
                 IN  [regionIds |-> w.regionIds, result |-> resultFromCache(w.regionIds, cache)]]
  /\ UNCHANGED served
  /\ UNCHANGED <<libState, calls, sidebarState, graphState, statsState>>

NextRegions == LoadRegions \/ RegionFetchSettles

SpecRegions == InitRegions /\ [][NextRegions]_vars

-----------------------------------------------------------------------------
(* getGraph (src/graph.js) and its callers: the preload of sidebar.js when  *)
(* the module is loaded, and highlightNodeWithNeighbors(nodeId) on a click. *)

\* the call of line 11 of sidebar.js
Preload == [caller |-> "sidebar", nodeId |-> NoLabel]

\* the call of line 5 of highlightNodeWithNeighbors.js
Highlight(nodeId) == [caller |-> "highlight", nodeId |-> nodeId]

\* the calls of getGraph made so far
GraphCallsMade == graphFetches + graphHits

InitGraph ==
  /\ NoLib
  /\ calls = <<>>
  /\ NoSidebar
  /\ NoRegions
  /\ NoStats
  /\ NoGraphCache

\* getGraph() up to its return of the cache (lines 12-14) or to its first await (line 17)
getGraphCalled(call) ==
  /\ GraphCallsMade < MaxGraphCalls
  /\ IF graphCache
       THEN /\ graphHits' = graphHits + 1
            /\ UNCHANGED <<graphFetches, graphCalls>>
       ELSE /\ graphFetches' = graphFetches + 1
            /\ graphCalls' = Append(graphCalls, call)
            /\ UNCHANGED graphHits
  /\ UNCHANGED graphCache
  /\ UNCHANGED <<libState, calls, sidebarState, regionsState, statsState>>

\* sidebar.js is loaded: the first call of getGraph
PreloadGraph ==
  /\ GraphCallsMade = 0
  /\ getGraphCalled(Preload)

\* a node of the map is clicked
HighlightNode ==
  /\ GraphCallsMade > 0
  /\ \E nodeId \in Labels : getGraphCalled(Highlight(nodeId))

\* the fetch of a call and the read of its body are over: line 19 writes the cache
GraphFetched ==
  /\ \E i \in DOMAIN graphCalls :
       graphCalls' = [j \in 1..(Len(graphCalls) - 1) |->
                        IF j < i THEN graphCalls[j] ELSE graphCalls[j + 1]]
  /\ graphCache' = TRUE
  /\ UNCHANGED <<graphFetches, graphHits>>
  /\ UNCHANGED <<libState, calls, sidebarState, regionsState, statsState>>

\* the fetch of a call fails: lines 21-24 throw, and the cache is as it was
GraphFetchFails ==
  /\ \E i \in DOMAIN graphCalls :
       graphCalls' = [j \in 1..(Len(graphCalls) - 1) |->
                        IF j < i THEN graphCalls[j] ELSE graphCalls[j + 1]]
  /\ UNCHANGED <<graphCache, graphFetches, graphHits>>
  /\ UNCHANGED <<libState, calls, sidebarState, regionsState, statsState>>

NextGraph == PreloadGraph \/ HighlightNode \/ GraphFetched \/ GraphFetchFails

SpecGraph == InitGraph /\ [][NextGraph]_vars

-----------------------------------------------------------------------------
(* wordStats (src/wordStats.js).  The history in localStorage is an object  *)
(* word -> timestamps, the words in the order of their first click.         *)

\* line 123: Date.now() / 1000
MsPerSecond == 1000

\* line 123: the seconds in a day
SecondsPerDay == 86400

\* recordClick(word) with the clock at now: the history it saves
recordClick(history, w, now) ==
  IF w = ""
    THEN history
    ELSE Put(history, w, Append(IF w \in Keys(history) THEN Get(history, w) ELSE <<>>, now))

\* line 123
cutoffTime(days, now) == (now \div MsPerSecond) - (days * SecondsPerDay)

\* lines 127-129: the clicks of one word from the cutoff on
clicksFrom(entry, cutoff) ==
  LET kept == SelectSeq(entry.value, LAMBDA timestamp : timestamp >= cutoff)
  IN  [i \in 1..Len(kept) |-> [word |-> entry.key, timestamp |-> kept[i]]]

\* lines 125-130: flatMap over the entries
RECURSIVE flatMapClicks(_, _)
flatMapClicks(history, cutoff) ==
  IF history = <<>> THEN <<>>
  ELSE clicksFrom(Head(history), cutoff) \o flatMapClicks(Tail(history), cutoff)

\* a click put into a list that is sorted newest first, behind the clicks that are as new
insertClick(sorted, click) ==
  LET n == Cardinality({i \in DOMAIN sorted : sorted[i].timestamp >= click.timestamp})
  IN  SubSeq(sorted, 1, n) \o <<click>> \o SubSeq(sorted, n + 1, Len(sorted))

\* line 131: the stable sort by b.timestamp - a.timestamp
RECURSIVE sortNewestFirst(_)
sortNewestFirst(clicks) ==
  IF clicks = <<>> THEN <<>>
  ELSE insertClick(sortNewestFirst(SubSeq(clicks, 1, Len(clicks) - 1)), clicks[Len(clicks)])

\* getRecentClicks(days) with the clock at now
getRecentClicks(history, days, now) ==
  sortNewestFirst(flatMapClicks(history, cutoffTime(days, now)))

\* the clicks the history holds
RECURSIVE ClickCount(_)
ClickCount(history) ==
  IF history = <<>> THEN 0 ELSE Len(Head(history).value) + ClickCount(Tail(history))

InitStats ==
  /\ NoLib
  /\ calls = <<>>
  /\ NoSidebar
  /\ NoRegions
  /\ NoGraphCache
  /\ NoStats

\* twelve hours pass
ClockAdvances ==
  /\ clock < ClockStart + MaxClockSteps * ClockStep
  /\ clock' = clock + ClockStep
  /\ UNCHANGED <<localStorage, recent>>
  /\ UNCHANGED <<libState, calls, sidebarState, regionsState, graphState>>

\* wordStats.recordClick(word)
RecordClick ==
  /\ ClickCount(localStorage) < MaxClicks
  /\ \E w \in Labels \cup {""} : localStorage' = recordClick(localStorage, w, clock)
  /\ UNCHANGED <<clock, recent>>
  /\ UNCHANGED <<libState, calls, sidebarState, regionsState, graphState>>

\* wordStats.getRecentClicks(days)
GetRecentClicks ==
  /\ \E days \in Days :
       recent' = [days |-> days, now |-> clock, value |-> getRecentClicks(localStorage, days, clock)]
  /\ UNCHANGED <<localStorage, clock>>
  /\ UNCHANGED <<libState, calls, sidebarState, regionsState, graphState>>

NextStats == ClockAdvances \/ RecordClick \/ GetRecentClicks

SpecStats == InitStats /\ [][NextStats]_vars

InitPhrase ==
  /\ NoPage
  /\ NoComposer
  /\ NoBatch
  /\ pc = "processChinesePhrase"
  /\ fn = "none"
  /\ content \in Runs
  /\ graph \in SUBSET Words
  /\ calls = <<Entered(content)>>
  /\ html = <<>>
  /\ given = <<>>
  /\ text = <<>>
  /\ result = Return(<<>>)

\* lines 29-39: the innermost call finds its first part and calls itself on what follows
ProcessChinesePhraseCall ==
  /\ pc = "processChinesePhrase"
  /\ Len(calls) < MaxDepth
  /\ calls[Len(calls)].state = "entered"
  /\ ~BaseCase(calls[Len(calls)].phrase, graph)
  /\ \E length \in {firstPartOrCharacter(calls[Len(calls)].phrase, graph)} :
       calls' = Append([calls EXCEPT ![Len(calls)].state = "awaiting", ![Len(calls)].length = length],
                       Entered(restOfPhrase(calls[Len(calls)].phrase, length)))
  /\ UNCHANGED <<pc, fn, text, result, word, data, content, graph, html, given, references,
                 flashcardsData, pageState>>

\* lines 19-26 and lines 33, 39: the innermost call returns, to its caller or to the
\* callback of replace
ProcessChinesePhraseReturn ==
  /\ pc = "processChinesePhrase"
  /\ \/ calls[Len(calls)].state = "entered" /\ BaseCase(calls[Len(calls)].phrase, graph)
     \/ calls[Len(calls)].state = "resumed"
  /\ \E value \in {IF calls[Len(calls)].state = "entered"
                     THEN linkIfExists(calls[Len(calls)].phrase, graph)
                     ELSE linkIfExists(SubSeq(calls[Len(calls)].phrase, 1, calls[Len(calls)].length), graph)
                          \o calls[Len(calls)].rest} :
       /\ calls' = Resumed(calls, value)
       /\ IF Len(calls) = 1
            THEN html' = value /\ fn' = pc /\ pc' = "done"
            ELSE UNCHANGED <<html, fn, pc>>
  /\ UNCHANGED <<text, result, word, data, content, graph, given, references, flashcardsData,
                 pageState>>

NextPhrase == ProcessChinesePhraseCall \/ ProcessChinesePhraseReturn

SpecPhrase == InitPhrase /\ [][NextPhrase]_vars

\* the function is synchronous: a call under way takes its next step
SpecPhraseRuns == SpecPhrase /\ WF_vars(NextPhrase)

InitReferences ==
  /\ NoApp
  /\ pc = "updateCharacterReferences"
  /\ fn = "none"
  /\ references \in InitialReferences
  /\ given = [initial |-> references, processed |-> <<>>]
  /\ flashcardsData = <<>>
  /\ text = <<>>
  /\ result = Return(<<>>)
  /\ NoComposer
  /\ NoSegmenter

\* one call on the index the calls share; the function returns the index it was handed
UpdateCharacterReferences ==
  /\ pc = "updateCharacterReferences"
  /\ Len(given.processed) < MaxDescriptions
  /\ \E w \in Headwords :
       \E list \in SeqsUpTo(DescriptionGivens, MaxDescriptions - Len(given.processed)) :
         /\ references' = updateCharacterReferences(w, DescriptionTexts(list), references)
         /\ given' = [given EXCEPT !.processed = @ \o list]
  /\ result' = Return(references')
  /\ fn' = pc
  /\ UNCHANGED <<pc, text, word, data, content, graph, html, flashcardsData, appState>>

SpecReferences == InitReferences /\ [][UpdateCharacterReferences]_vars

InitProcess ==
  /\ NoApp
  /\ pc = "processFlashcardsData"
  /\ fn = "none"
  /\ flashcardsData \in {d \in Dictionaries(MaxCards) : DistinctKeys(d)}
  /\ references = <<>>
  /\ given = <<>>
  /\ text = <<>>
  /\ result = Return(<<>>)
  /\ NoComposer
  /\ NoSegmenter

\* the whole dictionary goes through; the index built on the way is not in what is returned
ProcessFlashcardsData ==
  /\ pc = "processFlashcardsData"
  /\ \E st \in {ForEachFlashcard(flashcardsData, NothingProcessed)} :
       /\ result' = ReturnOf(st)
       /\ references' = st.characterReferences
  /\ fn' = pc
  /\ pc' = "done"
  /\ UNCHANGED <<text, word, data, content, graph, html, given, flashcardsData, appState>>

SpecProcess == InitProcess /\ [][ProcessFlashcardsData]_vars

-----------------------------------------------------------------------------
(* C2, C6: extractTitleInfo                                                 *)

Returned(name) == fn = name /\ pc = "done"

\* the title line the parser is to read: the line in the earliest shape, and of those the first
ExpectedTitle(titles) ==
  LET k == Min({titles[i].shape : i \in 1..Len(titles)})
      j == Min({i \in 1..Len(titles) : titles[i].shape = k})
  IN  [pinyin |-> titles[j].pinyin, english |-> titles[j].english]

WellSeparated(titles) == \A i \in 1..Len(titles) : titles[i].dash \in HyphenOrEnDash

\* C2: a text whose title lines are written in the five documented shapes, each with a
\* hyphen-minus or an en dash, parses to the pinyin and the gloss of the line whose shape
\* comes first in the order 1..5 (the first such line when several share the shape).
C2_TitleShapesInOrder ==
  (Returned("extractTitleInfo") /\ given.titles # <<>> /\ WellSeparated(given.titles))
    => (~result.threw /\ result.value = ExpectedTitle(given.titles))

\* the example of the claim: '# **<U+5199>(xie)** - to write', and the same with an en dash
C2_Witness ==
  /\ Returned("extractTitleInfo")
  /\ Len(given.titles) = 1
  /\ given.titles[1].shape = 5
  /\ given.titles[1].dash = "u2013"
  /\ result.value = [pinyin |-> <<"x", "i", "e">>, english |-> <<"t", "o", " ", "w", "r", "i", "t", "e">>]

\* a later line in an earlier shape wins over the first line
C2_WitnessOrder ==
  /\ Returned("extractTitleInfo")
  /\ Len(given.titles) = 2
  /\ given.titles[1].shape = 5
  /\ given.titles[2].shape = 1
  /\ result.value.pinyin = given.titles[2].pinyin

\* C6: a text that matches none of the five shapes (no title line at all, or title lines
\* whose separator is neither a hyphen-minus nor an en dash) yields pinyin '' and
\* english '', and the call returns rather than throws.
C6_NoShapeGivesEmptyPair ==
  (Returned("extractTitleInfo") /\ \A i \in 1..Len(given.titles) : given.titles[i].dash \notin HyphenOrEnDash)
    => (~result.threw /\ result.value = [pinyin |-> <<>>, english |-> <<>>])

\* the test's 'Invalid format'
C6_Witness ==
  /\ Returned("extractTitleInfo")
  /\ text = <<"I", "n", "v", "a", "l", "i", "d", " ", "f", "o", "r", "m", "a", "t">>
  /\ result = Return([pinyin |-> <<>>, english |-> <<>>])

\* a title line whose separator is an em dash
C6_WitnessEmDash ==
  /\ Returned("extractTitleInfo")
  /\ Len(given.titles) = 1
  /\ given.titles[1].dash = "u2014"
  /\ result = Return([pinyin |-> <<>>, english |-> <<>>])

-----------------------------------------------------------------------------
(* C7: extractCharacterBreakdown                                            *)

NotBlank(line) == ~Blank(line)

\* the lines under the header as the claim counts them: trailing white space removed,
\* blank lines left out
BodyLines(g) == SelectSeq(TrimmedEnd(g.body), NotBlank)

\* the places of the lines with no leading white space
NotIndented(lines) == {i \in 1..Len(lines) : Head(lines[i]) \notin WhiteSpace}

\* the k-th smallest member of a set of numbers
KthOf(S, k) == CHOOSE x \in S : Cardinality({y \in S : y < x}) = k - 1

\* one entry per place in S: the line there and the lines up to the next place of S, joined by '\n'
GroupsAt(lines, S) ==
  [k \in 1..Cardinality(S) |->
     LET i     == KthOf(S, k)
         later == {x \in S : x > i}
         j     == IF later = {} THEN Len(lines) ELSE Min(later) - 1
     IN  Join(SubSeq(lines, i, j), <<"\n">>)]

\* the block exists: an Examples header follows the breakdown
BreakdownLocated(g) == Includes(g.follow, <<"\n">> \o Bold \o ExamplesName)

\* C7 as claimed: the entries are the groups that start at the non-indented non-blank lines,
\* each with the indented lines that follow it, so there are as many entries as such lines.
C7_GroupsStartAtNonIndentedLines ==
  (Returned("extractCharacterBreakdown") /\ BreakdownLocated(given))
    => result.value = GroupsAt(BodyLines(given), NotIndented(BodyLines(given)))

\* C7 as amended: the entries are those groups, and before them one more entry when no
\* non-indented line comes first: the indented lines ahead of the first non-indented line,
\* or the empty string when no line under the header is left.
C7_GroupsOfBreakdownLines ==
  (Returned("extractCharacterBreakdown") /\ BreakdownLocated(given))
    => /\ ~result.threw
       /\ result.value =
            IF BodyLines(given) = <<>> THEN << <<>> >>
            ELSE GroupsAt(BodyLines(given), NotIndented(BodyLines(given)) \cup {1})

\* two non-indented lines, the first with an indented line under it: two entries, the
\* first of two lines
C7_Witness ==
  /\ Returned("extractCharacterBreakdown")
  /\ given.body = << <<"-", " ", "a">>, <<" ", " ", "-", " ", "b", " ", " ">>, <<"c", " ">> >>
  /\ given.follow = ExamplesSectionNext
  /\ result.value = << <<"-", " ", "a", "\n", " ", " ", "-", " ", "b">>, <<"c">> >>

\* an indented line ahead of the first non-indented line is an entry of its own
C7_WitnessIndentedFirst ==
  /\ Returned("extractCharacterBreakdown")
  /\ given.body = << <<" ", " ", "-", " ", "b", " ", " ">>, <<"-", " ", "a">> >>
  /\ given.follow = ExamplesSectionNext
  /\ Len(result.value) = 2

-----------------------------------------------------------------------------
(* C8: extractExamples                                                      *)

\* the lines under the header that begin with "- " once trimmed, trimmed
BulletsOf(body) == SelectSeq(Trimmed(body), LAMBDA line : HasAt(line, 1, <<"-", " ">>))

\* C8: the result is the bullet lines under the Examples header, in order and trimmed; the
\* header, the other lines and the lines of a section that follows are not in it.
C8_ExamplesAreTheBulletLines ==
  Returned("extractExamples") => (~result.threw /\ result.value = BulletsOf(given.body))

-----------------------------------------------------------------------------
(* C9, C10: extractUsageNotes                                               *)

\* the note that shares the header's line
HeaderNote(g) == IF g.header = UsageHeaderWithNote THEN <<SameLineNote>> ELSE <<>>

\* C9: after the note of the header's line (C10), the result is the non-blank lines under
\* the Usage Notes header, in order and trimmed, bullets kept; none is dropped and no
\* line of the Memory Aids section is in it.
C9_UsageNotesAreTheBodyLines ==
  Returned("extractUsageNotes")
    => (~result.threw /\ result.value = HeaderNote(given) \o SelectSeq(Trimmed(given.body), NotBlank))

\* C10: the text that shares the header's line is the first element of the result; the
\* text "**Usage Notes**: <U+5E38><U+7528> in schools" alone yields just that note.
C10_SameLineNoteComesFirst ==
  (Returned("extractUsageNotes") /\ given.header = UsageHeaderWithNote)
    => /\ result.value # <<>>
       /\ Head(result.value) = SameLineNote
       /\ (text = UsageHeaderWithNote => result.value = <<SameLineNote>>)

-----------------------------------------------------------------------------
(* C1: convertToMarkdown, then the parser                                   *)

\* C1: the parser, run over the markdown that convertToMarkdown writes for an entry with
\* non-empty pinyin and english, returns that entry, field by field and in the lists' order
C1_ParseOfComposeIsTheEntry ==
  (Returned("parseFlashcard") /\ word # <<>>) => result = Return(data)

\* the entry that does not come back: a character breakdown and no examples
C1_BreakdownWithoutExamples ==
  /\ Returned("parseFlashcard")
  /\ data.characterBreakdown = << <<"-", " ", "a", "\n", " ", " ", "-", " ", "b">> >>
  /\ data.examples = <<>>
  /\ ~result.threw
  /\ result.value.characterBreakdown = <<>>

-----------------------------------------------------------------------------
(* C3, C4: turnChineseWordsIntoLinks                                        *)

\* the run cut from left to right, each token the longest prefix of what is left that is a
\* node of the graph, or the first character alone when no prefix is
RECURSIVE GreedyTokens(_, _)
GreedyTokens(run, g) ==
  IF run = <<>> THEN <<>>
  ELSE LET known == {n \in 1..Len(run) : SubSeq(run, 1, n) \in g}
           n     == IF known = {} THEN 1 ELSE Max(known)
       IN  <<SubSeq(run, 1, n)>> \o GreedyTokens(From(run, n + 1), g)

\* the tokens written out: an anchor for a node of the graph, the token itself otherwise
RECURSIVE Linked(_, _)
Linked(tokens, g) ==
  IF tokens = <<>> THEN <<>>
  ELSE (IF Head(tokens) \in g
          THEN AnchorHref \o Head(tokens) \o AnchorClass \o Head(tokens) \o <<"\"", ">">>
               \o Head(tokens) \o AnchorClose
          ELSE Head(tokens))
       \o Linked(Tail(tokens), g)

IsRun(s) == s # <<>> /\ \A i \in 1..Len(s) : s[i] \in CJKLetters

\* C3: a run of ideographs comes out as its greedy longest-match tokens, the tokens that are
\* nodes of the graph linked and a single character that starts no node left as it is
C3_LongestPrefixAtEveryPosition ==
  (Returned("turnChineseWordsIntoLinks") /\ IsRun(content))
    => html = Linked(GreedyTokens(content, graph), graph)

Fire == <<"u706b">>
Wood == <<"u67f4">>
Matches == <<"u706b", "u67f4">>

C3_WitnessOneToken ==
  /\ Returned("turnChineseWordsIntoLinks")
  /\ content = Matches
  /\ graph = {Matches, Fire, Wood}
  /\ html = Linked(<<Matches>>, graph)

C3_WitnessTwoTokens ==
  /\ Returned("turnChineseWordsIntoLinks")
  /\ content = Matches
  /\ graph = {Fire, Wood}
  /\ html = Linked(<<Fire, Wood>>, graph)

C3_WitnessLongestOfTwoPrefixes ==
  /\ Returned("turnChineseWordsIntoLinks")
  /\ content = Matches \o Wood
  /\ graph = {Fire, Matches}
  /\ html = Linked(<<Matches, Wood>>, graph)

C3_WitnessUnlinkedCharacter ==
  /\ Returned("turnChineseWordsIntoLinks")
  /\ content = Wood \o Fire
  /\ graph = {Fire}
  /\ html = Wood \o Linked(<<Fire>>, graph)

\* out is s with every maximal run of ideographs replaced by some text that is no shorter,
\* and every other character kept where it is
RECURSIVE RunsRewritten(_, _)
RunsRewritten(out, s) ==
  IF s = <<>> THEN out = <<>>
  ELSE IF Head(s) \notin CJKLetters
    THEN out # <<>> /\ Head(out) = Head(s) /\ RunsRewritten(Tail(out), Tail(s))
    ELSE LET n == Cardinality({k \in 1..Len(s) : \A i \in 1..k : s[i] \in CJKLetters})
         IN  \E k \in n..Len(out) : RunsRewritten(From(out, k + 1), From(s, n + 1))

\* C4: the characters outside the runs of ideographs are in the output unchanged and in the
\* same order; only the runs are rewritten
C4_TextBetweenRunsPassesThrough ==
  Returned("turnChineseWordsIntoLinks") => RunsRewritten(html, content)

C4_Witness ==
  /\ Returned("turnChineseWordsIntoLinks")
  /\ content = <<"x", " ">> \o Fire \o <<" ">>
  /\ Fire \in graph
  /\ html = <<"x", " ">> \o Linked(<<Fire>>, graph) \o <<" ">>

C4_WitnessTwoRuns ==
  /\ Returned("turnChineseWordsIntoLinks")
  /\ content = Fire \o <<"x">> \o Wood \o <<" ">>
  /\ graph = {Wood}
  /\ html = Fire \o <<"x">> \o Linked(<<Wood>>, graph) \o <<" ">>

-----------------------------------------------------------------------------
(* C5: the parser on texts that lack sections                               *)

\* a line of the text starts with the section's header
Mentions(g, name) == \E i \in 1..Len(g.lines) : HasAt(g.lines[i], 1, Bold \o name)

TitleOnly(g) == g.lines = << <<"#", " ", "*", "*", "u597d", " ", "(", "h", "a", "o", ")", "*", "*", " ", "-", " ", "G", "o", "o", "d">> >>

\* C5: on a text that is empty, malformed or lacks sections the parser does not throw, the
\* title is a pair of strings, a section whose header is not in the text is the empty
\* sequence, and a text that is a title alone has four empty sequences
C5_MissingSectionsAreEmpty ==
  Returned("parseFlashcard") =>
    /\ ~result.threw
    /\ DOMAIN result.value =
         {"pinyin", "english", "characterBreakdown", "examples", "usageNotes", "memoryAids"}
    /\ result.value.pinyin \in Seq(STRING) /\ result.value.english \in Seq(STRING)
    /\ ~Mentions(given, CharacterBreakdownName) => result.value.characterBreakdown = <<>>
    /\ ~Mentions(given, ExamplesName) => result.value.examples = <<>>
    /\ ~Mentions(given, UsageNotesName) => result.value.usageNotes = <<>>
    /\ ~Mentions(given, MemoryAidsName) => result.value.memoryAids = <<>>
    /\ TitleOnly(given) =>
         /\ result.value.characterBreakdown = <<>> /\ result.value.examples = <<>>
         /\ result.value.usageNotes = <<>> /\ result.value.memoryAids = <<>>

C5_WitnessTitleOnly ==
  /\ Returned("parseFlashcard")
  /\ TitleOnly(given)
  /\ result = Return([pinyin |-> <<"h", "a", "o">>, english |-> <<"G", "o", "o", "d">>,
                      characterBreakdown |-> <<>>, examples |-> <<>>,
                      usageNotes |-> <<>>, memoryAids |-> <<>>])

C5_WitnessEmpty ==
  /\ Returned("parseFlashcard")
  /\ text = <<>>
  /\ result = Return([pinyin |-> <<>>, english |-> <<>>,
                      characterBreakdown |-> <<>>, examples |-> <<>>,
                      usageNotes |-> <<>>, memoryAids |-> <<>>])

C5_WitnessMalformed ==
  /\ Returned("parseFlashcard")
  /\ given.lines = << <<"*", "*", "U", "s", "a", "g", "e", " ", "N", "o", "t", "e", "s", "*", "*", ":", " ", "n">>, <<"-", " ", "a">> >>
  /\ ~result.threw
  /\ result.value.pinyin = <<>>
  /\ result.value.examples = <<>>

-----------------------------------------------------------------------------
(* C11: extractMemoryAids                                                   *)

MemoryHeaderNote(g) == IF g.header = MemoryHeaderWithNote THEN <<MemoryNote>> ELSE <<>>

NamesMemoryAids(line) == Includes(line, MemoryAidsName)

\* C11: the result is the note that shares the header's line, when there is one, and then
\* every non-blank line from the header to the end of the input, trimmed and in order
C11_MemoryAidsAreTheLinesToTheEnd ==
  Returned("extractMemoryAids")
    => (~result.threw
        /\ result.value = MemoryHeaderNote(given) \o SelectSeq(Trimmed(given.body), NotBlank))

\* a note that names the section is under the header and is not in the result
C11_NoteNamingTheSectionIsDropped ==
  /\ Returned("extractMemoryAids")
  /\ given.body = << <<"-", " ", "a">>, <<"-", " ", "s", "e", "e", " ", "M", "e", "m", "o", "r", "y", " ", "A", "i", "d", "s", " ", "o", "f", " ", "c">> >>
  /\ result = Return(<< <<"-", " ", "a">> >>)

-----------------------------------------------------------------------------
(* C12, C19: convertToMarkdown                                              *)

SectionNames == <<[field |-> "characterBreakdown", name |-> CharacterBreakdownName],
                  [field |-> "examples", name |-> ExamplesName],
                  [field |-> "usageNotes", name |-> UsageNotesName],
                  [field |-> "memoryAids", name |-> MemoryAidsName]>>

BlankLine == <<"\n", "\n">>
HardBreak == <<" ", " ", "\n">>

TitleOf(w, e) == <<"#", " ", "*", "*">> \o w \o <<" ", "(">> \o e.pinyin \o <<")", " ", "-", " ">> \o e.english
                 \o <<"*", "*">> \o BlankLine

\* the sections of the entry that are written: those whose list is there and not empty
Rendered(e) ==
  SelectSeq(SectionNames, LAMBDA sec : sec.field \in DOMAIN e /\ e[sec.field] # <<>>)

\* a header line and the entries under it, a hard break between the lines
RenderedSection(e, sec) ==
  <<"*", "*">> \o sec.name \o <<"*", "*", ":">> \o HardBreak \o Join(e[sec.field], HardBreak)

\* out is the sections one after the other, each followed by a blank line or by nothing
RECURSIVE SectionsInOrder(_, _, _)
SectionsInOrder(out, e, secs) ==
  IF secs = <<>> THEN out = <<>>
  ELSE LET sec == RenderedSection(e, Head(secs))
       IN  /\ HasAt(out, 1, sec)
           /\ \/ SectionsInOrder(From(out, Len(sec) + 1), e, Tail(secs))
              \/ /\ HasAt(out, Len(sec) + 1, BlankLine)
                 /\ SectionsInOrder(From(out, Len(sec) + 3), e, Tail(secs))

\* C12: the markdown is the title line '# **headword (pinyin) - english**' and a blank
\* line, then the sections in the order characterBreakdown, examples, usageNotes,
\* memoryAids, each a bold header line followed by its entries joined with two spaces and
\* a newline; a list that is empty or absent leaves nothing, not even its header
C12_TitleThenSectionsInOrder ==
  (fn = "convertToMarkdown" /\ pc = "parseFlashcard")
    => /\ HasAt(text, 1, TitleOf(word, data))
       /\ SectionsInOrder(From(text, Len(TitleOf(word, data)) + 1), data, Rendered(data))

C12_Witness ==
  /\ fn = "convertToMarkdown" /\ pc = "parseFlashcard"
  /\ word = <<"u5199">>
  /\ DOMAIN data = {"pinyin", "english", "characterBreakdown", "examples", "memoryAids"}
  /\ data.characterBreakdown = <<>>
  /\ text = <<"#", " ", "*", "*", "u5199", " ", "(", "x", "i", "e", ")", " ", "-", " ", "t", "o", " ", "w", "r", "i", "t", "e", "*", "*", "\n", "\n", "*", "*", "E", "x", "a", "m", "p", "l", "e", "s", "*", "*", ":", " ", " ", "\n", "-", " ", "x", " ", " ", "\n", "-", " ", "y", "\n", "\n", "*", "*", "M", "e", "m", "o", "r", "y", " ", "A", "i", "d", "s", "*", "*", ":", " ", " ", "\n", "-", " ", "m">>

C12_WitnessAllSections ==
  /\ fn = "convertToMarkdown" /\ pc = "parseFlashcard"
  /\ DOMAIN data = {"pinyin", "english"} \cup ListFields
  /\ \A f \in ListFields : Len(data[f]) = 2

\* the sections with a blank line between one and the next and nothing after the last
RECURSIVE SectionsBlankLineBetween(_, _)
SectionsBlankLineBetween(e, secs) ==
  IF secs = <<>> THEN <<>>
  ELSE RenderedSection(e, Head(secs))
       \o (IF Tail(secs) = <<>> THEN <<>> ELSE BlankLine)
       \o SectionsBlankLineBetween(e, Tail(secs))

\* C19 as claimed: every rendered section is followed by a blank line except the last
\* rendered one, whichever it is, after which the markdown ends
C19_NoBlankLineAfterLastSection ==
  (fn = "convertToMarkdown" /\ pc = "parseFlashcard")
    => text = TitleOf(word, data) \o SectionsBlankLineBetween(data, Rendered(data))

\* the sections, each followed by a blank line but for the memory aids
RECURSIVE SectionsBlankLineButMemory(_, _)
SectionsBlankLineButMemory(e, secs) ==
  IF secs = <<>> THEN <<>>
  ELSE RenderedSection(e, Head(secs))
       \o (IF Head(secs).field = "memoryAids" THEN <<>> ELSE BlankLine)
       \o SectionsBlankLineButMemory(e, Tail(secs))

\* C19 as amended: characterBreakdown, examples and usageNotes, when rendered, are each
\* followed by a blank line, also when no section comes after; memoryAids, which is last
\* whenever it is rendered, is followed by nothing
C19_BlankLineAfterAllButMemoryAids ==
  (fn = "convertToMarkdown" /\ pc = "parseFlashcard")
    => text = TitleOf(word, data) \o SectionsBlankLineButMemory(data, Rendered(data))

\* the entry with examples alone: the markdown ends with a blank line
C19_WitnessExamplesOnly ==
  /\ fn = "convertToMarkdown" /\ pc = "parseFlashcard"
  /\ word = <<"u5199">>
  /\ DOMAIN data = {"pinyin", "english", "examples"}
  /\ text = <<"#", " ", "*", "*", "u5199", " ", "(", "x", "i", "e", ")", " ", "-", " ", "t", "o", " ", "w", "r", "i", "t", "e", "*", "*", "\n", "\n", "*", "*", "E", "x", "a", "m", "p", "l", "e", "s", "*", "*", ":", " ", " ", "\n", "-", " ", "x", "\n", "\n">>

C19_WitnessMemoryLast ==
  /\ fn = "convertToMarkdown" /\ pc = "parseFlashcard"
  /\ word = <<"u5199">>
  /\ DOMAIN data = {"pinyin", "english", "examples", "memoryAids"}
  /\ data.examples = << <<"-", " ", "x">> >> /\ data.memoryAids = << <<"-", " ", "m">> >>
  /\ text = <<"#", " ", "*", "*", "u5199", " ", "(", "x", "i", "e", ")", " ", "-", " ", "t", "o", " ", "w", "r", "i", "t", "e", "*", "*", "\n", "\n", "*", "*", "E", "x", "a", "m", "p", "l", "e", "s", "*", "*", ":", " ", " ", "\n", "-", " ", "x", "\n", "\n", "*", "*", "M", "e", "m", "o", "r", "y", " ", "A", "i", "d", "s", "*", "*", ":", " ", " ", "\n", "-", " ", "m">>

-----------------------------------------------------------------------------
(* C13: updateCharacterReferences                                           *)

\* the positions of the descriptions handed over so far that describe the character c
Describing(c) ==
  {i \in 1..Len(given.processed) : given.processed[i].shaped /\ given.processed[i].char = c}

\* the description the index should hold for c: the one it had before the first call, or
\* else the first one handed over
FirstWriter(c) ==
  IF c \in Keys(given.initial) THEN Get(given.initial, c)
  ELSE DescriptionText(given.processed[Min(Describing(c))])

FirstWriterWins ==
  fn = "updateCharacterReferences" =>
    /\ Keys(references) = Keys(given.initial) \cup {c \in Characters : Describing(c) # {}}
    /\ \A c \in Keys(references) : Get(references, c) = FirstWriter(c)

DescriptionsKept ==
  \A c \in Keys(references) : c \in Keys(references') /\ Get(references', c) = Get(references, c)

\* C13: over any sequence of calls on the same index, and over duplicates within one call,
\* a key that has a description keeps it: the index holds for each character the description
\* that came first
C13_FirstWriterWins == [](FirstWriterWins) /\ [][DescriptionsKept]_vars

\* two descriptions of one character in one call, the first of them in the index
C13_Witness ==
  /\ fn = "updateCharacterReferences"
  /\ given.initial = <<>>
  /\ Len(given.processed) = 2
  /\ given.processed[1].char = <<"u67f4">> /\ given.processed[2].char = <<"u67f4">>
  /\ given.processed[1].shaped /\ given.processed[2].shaped
  /\ given.processed[1].gloss # given.processed[2].gloss
  /\ references = <<[key |-> <<"u67f4">>, value |-> DescriptionText(given.processed[1])]>>

\* a description that was there before the first call is not overwritten
C13_WitnessExisting ==
  /\ fn = "updateCharacterReferences"
  /\ given.processed # <<>> /\ given.processed[1].char = <<"u706b">> /\ given.processed[1].shaped
  /\ references = <<[key |-> <<"u706b">>, value |-> ExistingDescription]>>

\* the values of the dictionary that are not strings
InvalidTypes == {"null", "undefined", "number", "object"}

\* the record of each card of the fixtures, read off the card by hand
RecordOfCard(card) ==
  CASE card = MinimalCard ->
    [pinyin |-> <<"h", "a", "o">>, english |-> <<"G", "o", "o", "d">>,
     characterBreakdown |-> <<>>,
     examples |-> <<>>, usageNotes |-> <<>>, memoryAids |-> <<>>]
    [] card = MatchCard ->
    [pinyin |-> <<"h", "u", "o", "c", "h", "a", "i">>, english |-> <<"M", "a", "t", "c", "h">>,
     characterBreakdown |-> <<<<"-", " ", "*", "*", "u706b", " ", "(", "h", "u", "o", ")", "*", "*", ":", " ", "F", "i", "r", "e">>, <<"-", " ", "*", "*", "u67f4", " ", "(", "c", "h", "a", "i", ")", "*", "*", ":", " ", "W", "o", "o", "d">>>>,
     examples |-> <<<<"-", " ", "e">>>>, usageNotes |-> <<>>, memoryAids |-> <<<<"-", " ", "m">>>>]
    [] card = FireCard ->
    [pinyin |-> <<"h", "u", "o">>, english |-> <<"F", "i", "r", "e">>,
     characterBreakdown |-> <<<<"-", " ", "*", "*", "u706b", " ", "(", "h", "u", "o", ")", "*", "*", ":", " ", "F", "l", "a", "m", "e">>>>,
     examples |-> <<<<"-", " ", "f">>>>, usageNotes |-> <<>>, memoryAids |-> <<>>]

\* C14: a dictionary with values that are null, undefined, numbers or objects goes through
\* without a throw, the output has no key for such a value, and every entry whose value is
\* the text of a card is in the output with the record of that card
C14_InvalidEntriesSkipped ==
  Returned("processFlashcardsData") =>
    /\ ~result.threw
    /\ \A i \in 1..Len(flashcardsData) :
         LET e == flashcardsData[i]
         IN  /\ e.value.type \in InvalidTypes => e.key \notin Keys(result.value)
             /\ e.value.type = "string" /\ e.value.value # <<>> =>
                  /\ e.key \in Keys(result.value)
                  /\ Get(result.value, e.key) = RecordOfCard(e.value.value)

\* null first and a card after it: the card is in the output, the null is not
C14_Witness ==
  /\ Returned("processFlashcardsData")
  /\ Len(flashcardsData) = 2
  /\ flashcardsData[1] = [key |-> <<"i", "n", "v", "a", "l", "i", "d", "1">>, value |-> Null]
  /\ flashcardsData[2] = [key |-> <<"u597d">>, value |-> String(MinimalCard)]
  /\ ~result.threw
  /\ Keys(result.value) = {<<"u597d">>}

\* a number and an object, nothing in the output
C14_WitnessNothingValid ==
  /\ Returned("processFlashcardsData")
  /\ Len(flashcardsData) = 2
  /\ flashcardsData[1].value.type = "number" /\ flashcardsData[2].value.type = "object"
  /\ result = Return(<<>>)

\* C15: the output has the two top-level keys characterReferences and flashcards, the first
\* with the index of first-seen descriptions and the second with the records by headword
C15_OutputHasIndexAndFlashcards ==
  Returned("processFlashcardsData") /\ ~result.threw =>
    /\ Keys(result.value) = {<<"c", "h", "a", "r", "a", "c", "t", "e", "r", "R", "e", "f", "e", "r", "e", "n", "c", "e", "s">>, <<"f", "l", "a", "s", "h", "c", "a", "r", "d", "s">>}
    /\ Get(result.value, <<"c", "h", "a", "r", "a", "c", "t", "e", "r", "R", "e", "f", "e", "r", "e", "n", "c", "e", "s">>) = references
    /\ Keys(Get(result.value, <<"f", "l", "a", "s", "h", "c", "a", "r", "d", "s">>)) =
         {flashcardsData[i].key : i \in {j \in 1..Len(flashcardsData) :
                                          ~Falsy(flashcardsData[j].value)
                                          /\ flashcardsData[j].value.type = "string"}}

\* the index was built and has both characters of the card, and the output is the records
\* by headword and nothing else
C15_WitnessIndexNotReturned ==
  /\ Returned("processFlashcardsData")
  /\ flashcardsData = <<[key |-> <<"u706b", "u67f4">>, value |-> String(MatchCard)]>>
  /\ Keys(references) = {<<"u706b">>, <<"u67f4">>}
  /\ result = Return(<<[key |-> <<"u706b", "u67f4">>, value |-> RecordOfCard(MatchCard)]>>)

-----------------------------------------------------------------------------
(* C16: extractTitleInfo and the white space around the pinyin and the gloss *)

\* C16: the pinyin and the gloss come back without the spaces written around them, '( hao )'
\* as 'hao', and with the spaces and the punctuation inside them as written
C16_PinyinAndGlossTrimmed ==
  Returned("extractTitleInfo") =>
    result = Return([pinyin |-> given.title.pinyin, english |-> given.title.english])

\* the title '# **<U+597D> ( hao )** - to write ': the gloss comes back trimmed, and the
\* pinyin with its spaces
C16_WitnessPinyinKeepsSpaces ==
  /\ Returned("extractTitleInfo")
  /\ given.title.shape = 1
  /\ given.title.pinyin = <<"h", "a", "o">>
  /\ given.pinyinLeft = 1 /\ given.pinyinRight = 1
  /\ given.englishLeft = 0 /\ given.englishRight = 1
  /\ result.value.pinyin = <<" ", "h", "a", "o", " ">>
  /\ result.value.english = given.title.english

-----------------------------------------------------------------------------
(* C17, C18: a section that is the last of the text, with nothing after its *)
(* last line                                                                *)

\* the text ends with the last line written under the header, and that line is not blank
EndsWithLastLine(g) == g.follow = <<>> /\ g.body # <<>> /\ ~Blank(g.body[Len(g.body)])

\* C17: when Examples is the last section and the text ends right after the last example
\* line, the example lines are returned all the same
C17_LastExamplesBlockIsRead ==
  (Returned("extractExamples") /\ EndsWithLastLine(given)
     /\ HasAt(Trim(given.body[Len(given.body)]), 1, <<"-", " ">>))
    => result = Return(BulletsOf(given.body))

\* the text '**Examples**:  \n- a' and nothing after it: no example comes back
C17_WitnessNothingReturned ==
  /\ Returned("extractExamples")
  /\ given.before = <<>> /\ given.follow = <<>>
  /\ given.body = << <<"-", " ", "a">> >>
  /\ result = Return(<<>>)

\* C18: when no Memory Aids section follows and the text ends right after the last note
\* line, the notes are returned all the same
C18_LastUsageBlockIsRead ==
  (Returned("extractUsageNotes") /\ EndsWithLastLine(given))
    => result = Return(HeaderNote(given) \o SelectSeq(Trimmed(given.body), NotBlank))

\* the title, then '**Usage Notes**:  \n- a\n- a' and nothing after it: no note comes back
C18_WitnessNothingReturned ==
  /\ Returned("extractUsageNotes")
  /\ given.before # <<>> /\ given.follow = <<>>
  /\ given.body = << <<"-", " ", "a">>, <<"-", " ", "a">> >>
  /\ result = Return(<<>>)

-----------------------------------------------------------------------------
(* C20: the anchors of the segmenter's output                               *)

\* the anchor that starts the text out, read back: the word of the href, the data-word
\* attribute, the display text, and the number of characters the anchor takes
AnchorRead(out) ==
  LET dot   == FirstAt(out, Len(AnchorHref) + 1, ".")
      quote == FirstAt(out, dot + Len(AnchorClass), "\"")
      open  == FirstAt(out, quote + 2, "<")
      whole == /\ dot # 0 /\ quote # 0 /\ open # 0
               /\ HasAt(out, dot, AnchorClass)
               /\ HasAt(out, quote, <<"\"", ">">>)
               /\ HasAt(out, open, AnchorClose)
  IN  IF whole
        THEN [anchor |-> TRUE, whole |-> TRUE,
              href     |-> SubSeq(out, Len(AnchorHref) + 1, dot - 1),
              dataWord |-> SubSeq(out, dot + Len(AnchorClass), quote - 1),
              display  |-> SubSeq(out, quote + 2, open - 1),
              length   |-> open + Len(AnchorClose) - 1]
        ELSE [anchor |-> TRUE, whole |-> FALSE, href |-> <<>>, dataWord |-> <<>>,
              display |-> <<>>, length |-> Len(out)]

\* the output read back from left to right: the anchors, and one piece for each character
\* outside them
RECURSIVE Pieces(_)
Pieces(out) ==
  IF out = <<>> THEN <<>>
  ELSE IF HasAt(out, 1, <<"<">>)
    THEN <<AnchorRead(out)>> \o Pieces(From(out, AnchorRead(out).length + 1))
    ELSE <<[anchor |-> FALSE, whole |-> TRUE, href |-> <<>>, dataWord |-> <<>>,
            display |-> <<Head(out)>>, length |-> 1]>> \o Pieces(Tail(out))

RECURSIVE Displayed(_)
Displayed(pieces) ==
  IF pieces = <<>> THEN <<>> ELSE Head(pieces).display \o Displayed(Tail(pieces))

\* C20: a token of the output is in an anchor if and only if it is a node of the graph;
\* an anchor has the token as its display text, as its data-word and in its href, and
\* the tokens that are not nodes are in the output as they were in the content
C20_AnchorIffTokenExists ==
  Returned("turnChineseWordsIntoLinks") =>
    LET pieces == Pieces(html)
    IN  /\ \A i \in 1..Len(pieces) :
             IF pieces[i].anchor
               THEN /\ pieces[i].whole
                    /\ pieces[i].display \in graph
                    /\ pieces[i].dataWord = pieces[i].display
                    /\ pieces[i].href = pieces[i].display
               ELSE pieces[i].display \notin graph
        /\ Displayed(pieces) = content

\* U+67F4 is no node and U+706B is one: the first is written as it is, the second in an anchor
C20_Witness ==
  /\ Returned("turnChineseWordsIntoLinks")
  /\ content = <<"u67f4", "u706b">>
  /\ graph = {<<"u706b">>, <<"u706b", "u67f4">>}
  /\ html = <<"u67f4">> \o AnchorHref \o <<"u706b">> \o AnchorClass \o <<"u706b">>
            \o <<"\"", ">">> \o <<"u706b">> \o AnchorClose

\* a token of two characters in one anchor, with text around it
C20_WitnessWordOfTwo ==
  /\ Returned("turnChineseWordsIntoLinks")
  /\ content = <<"x", "u706b", "u67f4", " ">>
  /\ <<"u706b", "u67f4">> \in graph
  /\ Len(Pieces(html)) = 3
  /\ Pieces(html)[2].display = <<"u706b", "u67f4">>

-----------------------------------------------------------------------------
(* C21: the cut is greedy, not the best one                                 *)

\* some cut of the run has nodes of the graph only
RECURSIVE Partitionable(_, _)
Partitionable(run, g) ==
  \/ run = <<>>
  \/ \E n \in 1..Len(run) : SubSeq(run, 1, n) \in g /\ Partitionable(From(run, n + 1), g)

\* what is left of the run after its longest prefix that is a node
AfterLongestPrefix(run, g) ==
  LET known == {n \in 1..Len(run) : SubSeq(run, 1, n) \in g}
  IN  From(run, Max(known) + 1)

SomeCharacterUnlinked == \E i \in 1..Len(Pieces(html)) : ~Pieces(html)[i].anchor

\* C21: the longest prefix that is a node is taken whatever comes after it: when what is
\* left has no cut into nodes, a character stays unlinked, also when another cut of the
\* whole run has nodes only
C21_GreedyNotOptimal ==
  (/\ Returned("turnChineseWordsIntoLinks")
   /\ IsRun(content)
   /\ \E n \in 1..Len(content) : SubSeq(content, 1, n) \in graph
   /\ ~Partitionable(AfterLongestPrefix(content, graph), graph))
    => SomeCharacterUnlinked

\* the run ABC with the graph {A, AB, BC}, B and C the same ideograph: AB is linked and C
\* is not, and A with BC is a cut into nodes
C21_Witness ==
  /\ Returned("turnChineseWordsIntoLinks")
  /\ content = <<"u706b", "u67f4", "u67f4">>
  /\ graph = {<<"u706b">>, <<"u706b", "u67f4">>, <<"u67f4", "u67f4">>}
  /\ Partitionable(content, graph)
  /\ html = AnchorHref \o <<"u706b", "u67f4">> \o AnchorClass \o <<"u706b", "u67f4">>
            \o <<"\"", ">">> \o <<"u706b", "u67f4">> \o AnchorClose \o <<"u67f4">>

-----------------------------------------------------------------------------
(* C22: processChinesePhrase comes to an end                                *)

\* a call made by a call under way has a shorter phrase than its caller, a suffix of it
CallOnShorterSuffix ==
  Len(calls') > Len(calls) =>
    /\ Len(calls'[Len(calls')].phrase) < Len(calls[Len(calls)].phrase)
    /\ calls'[Len(calls')].phrase
         = From(calls[Len(calls)].phrase,
                Len(calls[Len(calls)].phrase) - Len(calls'[Len(calls')].phrase) + 1)

\* C22: every recursive call is made on a strictly shorter suffix of its caller's phrase,
\* and the first call returns, with what the function returns for the run
C22_PhraseTerminates ==
  /\ [][CallOnShorterSuffix]_vars
  /\ <>(Returned("processChinesePhrase") /\ calls = <<>>)
  /\ [](Returned("processChinesePhrase") => html = processChinesePhrase(content, graph))

\* no prefix is a node: one call for every character of the run, the deepest the recursion gets
C22_WitnessDeepest ==
  /\ pc = "processChinesePhrase"
  /\ graph = {}
  /\ Len(content) >= 3
  /\ Len(calls) = Len(content)
  /\ calls[Len(calls)].phrase = <<content[Len(content)]>>

\* the run of the deepest recursion, returned as it was
C22_Witness ==
  /\ Returned("processChinesePhrase")
  /\ graph = {}
  /\ Len(content) >= 3
  /\ calls = <<>>
  /\ html = content

-----------------------------------------------------------------------------
(* C23: updateCharacterReferences and the descriptions without the shape    *)

\* the descriptions handed over by the call of this step
HandedOver == SubSeq(given'.processed, Len(given.processed) + 1, Len(given'.processed))

\* the first description of the list that has the shape and describes c
FirstShaped(list, c) ==
  DescriptionText(list[Min({i \in 1..Len(list) : list[i].shaped /\ list[i].char = c})])

MalformedSkipped ==
  LET shaped == {HandedOver[i].char : i \in {j \in 1..Len(HandedOver) : HandedOver[j].shaped}}
  IN  /\ ~result'.threw
      /\ Keys(references') = Keys(references) \cup shaped
      /\ \A c \in Keys(references) : Get(references', c) = Get(references, c)
      /\ \A c \in shaped \ Keys(references) : Get(references', c) = FirstShaped(HandedOver, c)

\* C23: a call returns; a description of its list without the '**token (pronunciation)**'
\* shape adds no key and changes no key, and the descriptions of the list with the shape,
\* those after it included, are indexed
C23_MalformedSkipped == [][MalformedSkipped]_vars

\* a description without the shape, then one with it: only the second is in the index
C23_Witness ==
  /\ fn = "updateCharacterReferences"
  /\ given.initial = <<>>
  /\ Len(given.processed) = 2
  /\ ~given.processed[1].shaped /\ given.processed[1].char = <<"u706b">>
  /\ given.processed[2].shaped /\ given.processed[2].char = <<"u67f4">>
  /\ ~result.threw
  /\ references = <<[key |-> <<"u67f4">>, value |-> DescriptionText(given.processed[2])]>>

\* descriptions without the shape only: the index is as it was before the call
C23_WitnessNothingIndexed ==
  /\ fn = "updateCharacterReferences"
  /\ given.initial # <<>>
  /\ Len(given.processed) = 2
  /\ ~given.processed[1].shaped /\ ~given.processed[2].shaped
  /\ references = given.initial

-----------------------------------------------------------------------------
(* C24: the entries of extractCharacterBreakdown                            *)

\* C24: every entry is a non-empty string with a line that is not blank, and no entry holds
\* the header; a header with blank lines only before the Examples header gives no entry
C24_EntriesAreNotEmpty ==
  Returned("extractCharacterBreakdown") =>
    /\ ~result.threw
    /\ \A i \in 1..Len(result.value) :
         /\ result.value[i] # <<>>
         /\ \E k \in 1..Len(Split(result.value[i])) : ~Blank(Split(result.value[i])[k])
         /\ ~Includes(result.value[i], CharacterBreakdownName)
    /\ (BreakdownLocated(given) /\ BodyLines(given) = <<>>) => result.value = <<>>

\* the header, two blank lines and the Examples section: one entry, the empty string
C24_WitnessEmptyEntry ==
  /\ Returned("extractCharacterBreakdown")
  /\ given.body = << <<>>, <<" ", " ">> >>
  /\ given.follow = ExamplesSectionNext
  /\ result = Return(<< <<>> >>)

-----------------------------------------------------------------------------
(* C25: the output without its markup is the input                          *)

\* the text with every tag, from '<' to the next '>', taken out
RECURSIVE WithoutTags(_)
WithoutTags(out) ==
  IF out = <<>> THEN <<>>
  ELSE IF Head(out) = "<"
    THEN IF FirstAt(out, 1, ">") = 0 THEN <<>> ELSE WithoutTags(From(out, FirstAt(out, 1, ">") + 1))
    ELSE <<Head(out)>> \o WithoutTags(Tail(out))

\* C25: the output with the opening and closing tags of its anchors deleted is the input,
\* character by character
C25_TextPreserved ==
  Returned("turnChineseWordsIntoLinks") => WithoutTags(html) = content

\* two runs with a letter between them, both linked: the output is longer than the input
\* and gives it back
C25_Witness ==
  /\ Returned("turnChineseWordsIntoLinks")
  /\ content = <<"u706b", "x", "u67f4">>
  /\ graph = {<<"u706b">>, <<"u67f4">>}
  /\ Len(html) = 3 + 2 * (Len(AnchorHref) + Len(AnchorClass) + 4 + Len(AnchorClose))
  /\ WithoutTags(html) = content

-----------------------------------------------------------------------------
(* C26: the keys of what processFlashcardsData returns                      *)

\* the keys of the dictionary whose value is a string
StringKeys(d) == {d[i].key : i \in {j \in 1..Len(d) : d[j].value.type = "string"}}

\* C26: the keys of the output are the keys of the input whose value is a string, the empty
\* string included, and each of them has an entry with the six fields
C26_KeysAreTheStringKeys ==
  Returned("processFlashcardsData") =>
    /\ ~result.threw
    /\ Keys(result.value) = StringKeys(flashcardsData)
    /\ \A k \in Keys(result.value) :
         DOMAIN Get(result.value, k) = {"pinyin", "english", "characterBreakdown", "examples",
                                        "usageNotes", "memoryAids"}

\* the empty string under one key and a card under another: the output has the card's key alone
C26_WitnessEmptyStringSkipped ==
  /\ Returned("processFlashcardsData")
  /\ Len(flashcardsData) = 2
  /\ flashcardsData[1] = [key |-> <<"u706b", "u67f4">>, value |-> String(<<>>)]
  /\ flashcardsData[2] = [key |-> <<"u597d">>, value |-> String(MinimalCard)]
  /\ Keys(result.value) = {<<"u597d">>}

-----------------------------------------------------------------------------
(* C27: the sidebar and the order in which the fetches settle               *)

\* every fetch has settled and every call of showContentForLabel has run to its end
AllSettled == pendingRequests = {} /\ awaiting = <<>>

\* C27: once all fetches have settled, the content element shows the card of the label
\* opened last
C27_ShowsLastLabel ==
  (AllSettled /\ lastLabel # NoLabel) =>
    (contentElement.kind = "content" /\ contentElement.label = lastLabel)

\* U+706B was opened, then U+67F4; the fetch of U+706B settled last, and its card is what
\* the element shows
C27_WitnessEarlierLabelShown ==
  /\ AllSettled
  /\ opens = 2
  /\ isOpen
  /\ lastLabel = "u67f4"
  /\ Keys(flashcards) = {"u706b", "u67f4"}
  /\ flashcards[1].key = "u67f4"
  /\ contentElement = renderContent("u706b", CardOf("u706b"), FALSE)

-----------------------------------------------------------------------------
(* C28: overlapping calls of loadRegions                                    *)

\* C28: the result of a call of loadRegions that has resolved holds every requested id
\* the server has a file for
C28_ResultHasEveryFetchedId ==
  \A i \in DOMAIN resolved :
    (resolved[i].regionIds \cap served) \subseteq resolved[i].result

\* r1 was requested by a first call and, while its fetch was under way, by a second one;
\* the second call resolved before that fetch settled, and its result is empty although the
\* fetch has succeeded since
C28_WitnessResolvedBeforeFetch ==
  /\ Len(resolved) = 2
  /\ resolved[1] = [regionIds |-> {"r1"}, result |-> {}]
  /\ resolved[2] = [regionIds |-> {"r1"}, result |-> {"r1"}]
  /\ "r1" \in served
  /\ "r1" \in regionCache
  /\ loadingRegions = {}

-----------------------------------------------------------------------------
(* C29: the cache of the graph                                              *)

\* C29: the graph file is fetched at most once
C29_FetchedAtMostOnce == graphFetches <= 1

\* the preload's fetch is under way when a node is clicked: the click starts a fetch of
\* its own, and both are under way
C29_WitnessTwoFetchesUnderWay ==
  /\ graphCalls = <<Preload, Highlight("u706b")>>
  /\ graphFetches = 2
  /\ graphHits = 0
  /\ ~graphCache

-----------------------------------------------------------------------------
(* C30: the clicks of the last days                                         *)

\* the milliseconds in a day
MsPerDay == MsPerSecond * SecondsPerDay

\* the number of times x is in the list
Occurrences(list, x) == Cardinality({i \in DOMAIN list : list[i] = x})

\* the clicks are those of the history recorded at most `days` days before now, each as
\* many times as it was recorded
ClicksOfLastDays(clicks, history, days, now) ==
  /\ \A i \in DOMAIN clicks :
       /\ clicks[i].word \in Keys(history)
       /\ Occurrences(Get(history, clicks[i].word), clicks[i].timestamp) > 0
  /\ \A w \in Keys(history) :
       \A i \in DOMAIN Get(history, w) :
         LET timestamp == Get(history, w)[i]
         IN  Occurrences(clicks, [word |-> w, timestamp |-> timestamp]) =
               IF timestamp >= now - days * MsPerDay
                 THEN Occurrences(Get(history, w), timestamp)
                 ELSE 0

NewestFirst(clicks) ==
  \A i \in 1..(Len(clicks) - 1) : clicks[i].timestamp >= clicks[i + 1].timestamp

\* a call of getRecentClicks returns the clicks of the last `days` days, newest first
RecentClicksReturned ==
  (recent' # recent) =>
    /\ ClicksOfLastDays(recent'.value, localStorage, recent'.days, clock)
    /\ NewestFirst(recent'.value)

\* C30: getRecentClicks(days) returns exactly the recorded clicks whose timestamp is within
\* the last `days` days, newest first
C30_RecentClicksWithinDays == [][RecentClicksReturned]_vars

\* a click was recorded when the page was loaded; two days later getRecentClicks(1)
\* returned it
C30_WitnessOldClickReturned ==
  /\ localStorage = <<[key |-> "u706b", value |-> <<ClockStart>>]>>
  /\ recent = [days |-> 1, now |-> ClockStart + 2 * MsPerDay,
               value |-> <<[word |-> "u706b", timestamp |-> ClockStart]>>]

====
